---- MODULE Spec2Model ----
(***************************************************************************)
(* A model of the deterministic shift allocator of javeed-ordio            *)
(* (allocation_core/allocator.py, constraints.py, preferences.py,          *)
(* roles.py, time_utils.py).                                               *)
(*                                                                         *)
(* Representation.                                                         *)
(*   - An ISO date string is an integer day number; day 1 is Saturday      *)
(*     2026-11-28, so day 3 (Monday 2026-11-30) starts a new week and day  *)
(*     4 (Tuesday 2026-12-01) a new month.  The order of well-formed ISO   *)
(*     date strings is the order of the day numbers.                       *)
(*   - An "HH:MM" string is a pair <<hh, mm>> of integers, which may be    *)
(*     out of range; any other value (the empty tuple) has no colon.       *)
(*   - A duration in hours (a Python float) is an integer number of        *)
(*     minutes; a cap in hours is a rational [num, den].                   *)
(*   - A score is an integer number of hundredths of a point, the result   *)
(*     of round(x, 2) taken on the exact rational.                         *)
(***************************************************************************)
EXTENDS Integers, Sequences, FiniteSets, TLC

\* Python's None, where a number is expected.
None == -1

Range(s) == {s[i] : i \in 1..Len(s)}

\* The list a function on 1..n describes, element by element.
List(f) == f \o <<>>

Max(a, b) == IF a >= b THEN a ELSE b

Min(a, b) == IF a <= b THEN a ELSE b

\* round(num/den, k) as an integer number of 10^-k units: num and den are
\* already scaled, den > 0, ties go to the even neighbour.
RoundHalfEven(num, den) ==
    LET q == num \div den
        r == num % den
    IN  IF 2 * r < den THEN q
        ELSE IF 2 * r > den THEN q + 1
        ELSE IF q % 2 = 0 THEN q ELSE q + 1

(***************************************************************************)
(* time_utils.py                                                           *)
(***************************************************************************)

\* A value that parses as HH:MM: the text before and after the colon are
\* integers.
HasColon(value) == Len(value) = 2

parse_hhmm_to_minutes(value) ==
    IF ~HasColon(value) THEN None
    ELSE IF value[1] < 0 \/ value[1] > 23 \/ value[2] < 0 \/ value[2] > 59 THEN None
    ELSE value[1] * 60 + value[2]

\* calc_shift_hours for a shift that ends on the day it starts.
calc_shift_hours_same_day(start, end) ==
    LET s == parse_hhmm_to_minutes(start)
        e == parse_hhmm_to_minutes(end)
    IN  IF s = None \/ e = None THEN 0 ELSE e - s

\* In minutes (the code returns diff / 60.0 hours).
calc_shift_hours(start, end) ==
    LET s == parse_hhmm_to_minutes(start)
        e == parse_hhmm_to_minutes(end)
    IN  IF s = None \/ e = None THEN 0
        ELSE IF e - s < 0 THEN e - s + 24 * 60 ELSE e - s

\* The one interval of a range that does not pass midnight.
intervals_same_day(start, end) == {<<start, end>>}

intervals(start, end) ==
    IF end > start THEN {<<start, end>>} ELSE {<<start, 24 * 60>>, <<0, end>>}

time_overlap(start_a, end_a, start_b, end_b) ==
    LET a0 == parse_hhmm_to_minutes(start_a)
        a1 == parse_hhmm_to_minutes(end_a)
        b0 == parse_hhmm_to_minutes(start_b)
        b1 == parse_hhmm_to_minutes(end_b)
    IN  IF None \in {a0, a1, b0, b1} THEN FALSE
        ELSE \E x \in intervals(a0, a1) : \E y \in intervals(b0, b1) :
                Max(x[1], y[1]) < Min(x[2], y[2])

\* Labels "frueh" / "spaet" of a shift; typ is the lower-cased shift type.
shift_labels(typ, start, end) ==
    LET start_min == parse_hhmm_to_minutes(start)
        end_min == parse_hhmm_to_minutes(end)
    IN  (IF typ = "frueh" THEN {"frueh"} ELSE {})
        \cup (IF typ = "spaet" THEN {"spaet"} ELSE {})
        \cup (IF start_min # None /\ start_min < 11 * 60 THEN {"frueh"} ELSE {})
        \cup (IF start_min # None /\ start_min >= 16 * 60 THEN {"spaet"} ELSE {})
        \cup (IF end_min # None /\ end_min >= 21 * 60 THEN {"spaet"} ELSE {})

(***************************************************************************)
(* Calendar: date.fromisoformat, weekday, timedelta                        *)
(***************************************************************************)

\* date.weekday(): Monday is 0.  Day 1 is a Saturday.
weekday(datum) == (datum + 4) % 7

\* The ISO date of the Monday of the week, as a day number.
week_key(datum) == datum - weekday(datum)

\* datum[:7], as the month number: November 2026 is days -26..3.
month_key(datum) ==
    IF datum < -26 THEN 10 ELSE IF datum <= 3 THEN 11 ELSE 12

(***************************************************************************)
(* Strings.  TLC compares strings only for equality, so the operations the *)
(* code applies to strings (normalisation, substring test, order) are      *)
(* tabulated over the strings the model uses.                              *)
(***************************************************************************)

\* canonical_name: NFKD without combining marks, lower case, runs of
\* non-alphanumerics to one space.  (No strip after the substitution.)
canonical_name(value) ==
    CASE value = "Anna Meier" -> "anna meier"
      [] value = "anna  meier" -> "anna meier"
      [] value = "Bert Kurz" -> "bert kurz"
      [] value = "Cora Lang" -> "cora lang"
      [] value = "Dirk Moll" -> "dirk moll"
      [] value = "Eva Nagel" -> "eva nagel"
      [] value = "Finn Ott" -> "finn ott"
      [] value = "Gerd Pohl" -> "gerd pohl"
      [] value = "Hanna Rau" -> "hanna rau"
      [] value = "Ida Sorg" -> "ida sorg"
      [] value = "Anna" -> "anna"
      [] value = "Bert" -> "bert"
      [] value = "Bar" -> "bar"
      [] value = "Koch" -> "koch"
      [] value = "Spaet" -> "spaet"
      [] value = "Doppel" -> "doppel"
      [] value = "Theke" -> "theke"
      [] value = "Minijob" -> "minijob"
      [] value = "Werkstudent" -> "werkstudent"
      [] value = "Teilzeit" -> "teilzeit"
      [] OTHER -> value

\* needle in hay, for canonical strings.
SubstrPairs ==
    {<<"mini", "minijob">>, <<"werk", "werkstudent">>}

Contains(hay, needle) ==
    needle = "" \/ needle = hay \/ <<needle, hay>> \in SubstrPairs

\* The strings the code orders, in ascending order.
StrOrder ==
    <<"", "anna", "anna meier", "bert", "bert kurz", "cora lang", "dirk moll",
      "e1", "e2", "e3", "e4", "e5", "e6", "e7", "e8", "e9",
      "eva nagel", "finn ott", "gerd pohl", "hanna rau", "ida sorg",
      "n01", "n02", "n03", "n04", "n05", "n06", "n07", "n08", "n09", "n10",
      "n11", "n12", "n13", "n14", "n15", "n16", "n17", "n18", "n19", "n20",
      "s1", "s2", "s3", "s4",
      "t01", "t02", "t03", "t04", "t05", "t06", "t07", "t08", "t09", "t10",
      "t11", "t12", "t13", "t14", "t15", "t16", "t17", "t18", "t19", "t20">>

StrRank(value) == CHOOSE i \in 1..Len(StrOrder) : StrOrder[i] = value

(***************************************************************************)
(* allocator.py: rule lookup and caps                                      *)
(***************************************************************************)

\* A rule with no key set: what rule.get(...) answers on {}.
EmptyRule ==
    [no_additional_shifts |-> FALSE, disable_max_hours |-> FALSE,
     max_monthly_hours |-> None, target_weekly_hours |-> None,
     max_weekly_hours |-> None, max_additional_monthly_hours |-> None,
     notes |-> <<>>, preferred_shift_types |-> {},
     preferred_working_areas |-> {}]

\* profile.employee_rules is a sequence of <<key, rule>> pairs in dict order;
\* the lookup maps canonical_name(key) to the last rule stored under it.
_normalize_rule_lookup(profile) ==
    LET rules == profile.employee_rules
        keys == {canonical_name(rules[i][1]) : i \in 1..Len(rules)}
        last(k) == CHOOSE i \in 1..Len(rules) :
                      /\ canonical_name(rules[i][1]) = k
                      /\ \A j \in (i + 1)..Len(rules) : canonical_name(rules[j][1]) # k
    IN  [k \in keys |-> rules[last(k)][2]]

_employee_rule(emp, lookup) ==
    LET first == canonical_name(emp.first_name)
        full == canonical_name(emp.full_name)
        user == canonical_name(emp.username)
    IN  IF full # "" /\ full \in DOMAIN lookup THEN lookup[full]
        ELSE IF first # "" /\ first \in DOMAIN lookup THEN lookup[first]
        ELSE IF user # "" /\ user \in DOMAIN lookup THEN lookup[user]
        ELSE EmptyRule

\* A cap in hours as the rational num/den; NoCap is Python's None.
NoCap == [num |-> None, den |-> 1]

Rat(n, d) == [num |-> n, den |-> d]

\* min of two non-negative rationals.
RatMin(a, b) == IF a.num * b.den <= b.num * a.den THEN a ELSE b

\* minutes / 60 > cap, for a cap that is not None.
ExceedsCap(minutes, cap) == minutes * cap.den > cap.num * 60

\* The cap that looks at the salary before the rule's hours.
_effective_monthly_cap_salary_first(emp, rule) ==
    LET employment == canonical_name(emp.employment)
        wage == emp.hourly_wage
        max_salary == emp.max_salary
    IN  IF rule.disable_max_hours THEN NoCap
        ELSE IF Contains(employment, "mini")
             THEN IF wage > 0 /\ max_salary > 0
                  THEN RatMin(Rat(43, 1), Rat(max_salary, wage))
                  ELSE Rat(43, 1)
        ELSE IF wage > 0 /\ max_salary > 0 THEN Rat(max_salary, wage)
        ELSE IF rule.max_monthly_hours # None THEN Rat(rule.max_monthly_hours, 1)
        ELSE IF rule.target_weekly_hours # None THEN Rat(rule.target_weekly_hours * 433, 100)
        ELSE IF Contains(employment, "werki") \/ Contains(employment, "werk")
             THEN Rat(20 * 433, 100)
        ELSE Rat(160, 1)

_effective_monthly_cap(emp, rule) ==
    LET employment == canonical_name(emp.employment)
        wage == emp.hourly_wage
        max_salary == emp.max_salary
    IN  IF rule.disable_max_hours THEN NoCap
        ELSE IF rule.max_monthly_hours # None THEN Rat(rule.max_monthly_hours, 1)
        ELSE IF rule.target_weekly_hours # None THEN Rat(rule.target_weekly_hours * 433, 100)
        ELSE IF Contains(employment, "mini")
             THEN IF wage > 0 /\ max_salary > 0
                  THEN RatMin(Rat(43, 1), Rat(max_salary, wage))
                  ELSE Rat(43, 1)
        ELSE IF Contains(employment, "werki") \/ Contains(employment, "werk")
             THEN Rat(20 * 433, 100)
        ELSE IF wage > 0 /\ max_salary > 0 THEN Rat(max_salary, wage)
        ELSE Rat(160, 1)

\* In whole hours.
_effective_weekly_cap(emp, rule) ==
    LET employment == canonical_name(emp.employment)
    IN  IF rule.max_weekly_hours # None THEN rule.max_weekly_hours
        ELSE IF Contains(employment, "werki") \/ Contains(employment, "werk") THEN 20
        ELSE 48

_target_hours_for_scoring(emp, rule) ==
    IF rule.target_weekly_hours # None THEN Rat(rule.target_weekly_hours * 433, 100)
    ELSE IF rule.max_monthly_hours # None THEN Rat(rule.max_monthly_hours, 1)
    ELSE _effective_monthly_cap(emp, rule)

(***************************************************************************)
(* preferences.py.  A rule's free-text note is the sequence of its words;  *)
(* the substring and regular-expression scans are scans for adjacent       *)
(* words.                                                                  *)
(***************************************************************************)

\* _norm_text, word by word: NFKD without combining marks, lower case.
_norm_text(text) ==
    [i \in 1..Len(text) |->
        CASE text[i] = "Kein" -> "kein"
          [] text[i] = "Wochenende" -> "wochenende"
          [] text[i] = "Nur" -> "nur"
          [] text[i] = "Max" -> "max"
          [] text[i] = "Schichten" -> "schichten"
          [] text[i] = "früh" -> "fruh"
          [] text[i] = "spät" -> "spat"
          [] OTHER -> text[i]]

\* int(group) for a run of digits; None for a word that is no \d+.
DigitsValue(word) ==
    CASE word = "1" -> 1
      [] word = "2" -> 2
      [] word = "10" -> 10
      [] word = "20" -> 20
      [] OTHER -> None

HasPair(text, a, b) ==
    \E i \in 1..(Len(text) - 1) : text[i] = a /\ text[i + 1] = b

\* The number captured by the first match of "<a> <digits> <c...>", or None.
NumberBetween(text, a, cs) ==
    LET hits == {i \in 1..(Len(text) - 2) :
                    /\ text[i] = a
                    /\ DigitsValue(text[i + 1]) # None
                    /\ text[i + 2] \in cs}
    IN  IF hits = {} THEN None
        ELSE DigitsValue(text[(CHOOSE i \in hits : \A j \in hits : i <= j) + 1])

\* prefs as a record; an absent key is FALSE, "" or None.
NoPrefs ==
    [no_weekend |-> FALSE, only_weekend |-> FALSE, prefer |-> "",
     max_shifts_week |-> None, earliest |-> None, latest |-> None]

parse_simple_shift_preferences(note_text) ==
    IF note_text = <<>> THEN NoPrefs
    ELSE
    LET text == _norm_text(note_text)
        max_shifts == NumberBetween(text, "max", {"schicht", "schichten"})
        earliest == NumberBetween(text, "ab", {"uhr"})
        latest == NumberBetween(text, "bis", {"uhr"})
    IN  [no_weekend |-> HasPair(text, "kein", "wochenende") \/ HasPair(text, "nicht", "wochenende"),
         only_weekend |-> HasPair(text, "nur", "wochenende"),
         prefer |-> IF HasPair(text, "lieber", "spat") \/ HasPair(text, "bevorzugt", "spat")
                    THEN "spaet"
                    ELSE IF HasPair(text, "lieber", "fruh") \/ HasPair(text, "bevorzugt", "fruh")
                    THEN "frueh"
                    ELSE "",
         max_shifts_week |-> max_shifts,
         earliest |-> IF earliest = None THEN None ELSE earliest * 60,
         latest |-> IF latest = None THEN None ELSE latest * 60]

_resolve_preference_targets(prefs, is_weekend) ==
    IF prefs.prefer \in {"frueh", "spaet"} THEN {prefs.prefer} ELSE {}

\* violation_mode is "flat" with flat_violation_penalty given.  The result is
\* <<score_delta in hundredths, violation_codes>>.
evaluate_shift_preferences(prefs, shift_type, date_iso, start, end, preference_bonus, flat_violation_penalty) ==
    IF prefs = NoPrefs THEN <<0, <<>>>>
    ELSE
    LET is_weekend == weekday(date_iso) >= 5
        start_min == parse_hhmm_to_minutes(start)
        end_min == parse_hhmm_to_minutes(end)
        violations ==
            (IF prefs.no_weekend /\ is_weekend THEN <<"no_weekend">> ELSE <<>>)
            \o (IF prefs.only_weekend /\ ~is_weekend THEN <<"only_weekend">> ELSE <<>>)
            \o (IF prefs.earliest # None /\ start_min # None /\ start_min < prefs.earliest
                THEN <<"starts_too_early">> ELSE <<>>)
            \o (IF prefs.latest # None /\ end_min # None /\ end_min > prefs.latest
                THEN <<"ends_too_late">> ELSE <<>>)
        labels == shift_labels(canonical_name(shift_type), start, end)
        targets == _resolve_preference_targets(prefs, is_weekend)
    IN  IF violations # <<>> THEN <<flat_violation_penalty, violations>>
        ELSE IF labels \cap targets # {} THEN <<preference_bonus, <<>>>>
        ELSE <<0, <<>>>>

(***************************************************************************)
(* roles.py                                                                *)
(***************************************************************************)

ROLE_AFFINITY ==
    [service |-> {"frueh", "normal", "spaet", "doppel", "service", "theke"},
     kellner |-> {"frueh", "normal", "spaet", "service", "theke"},
     bar |-> {"spaet", "normal", "bar", "theke"},
     koch |-> {"frueh", "normal", "spaet", "kueche"},
     kueche |-> {"frueh", "normal", "spaet", "kueche"}]

compute_role_match_score(role, shift_type, exact_score, affinity_score, partial_score) ==
    LET role_norm == role
        shift_norm == shift_type
    IN  IF role_norm = "" \/ shift_norm = "" THEN partial_score
        ELSE IF Contains(shift_norm, role_norm) \/ Contains(role_norm, shift_norm)
             THEN exact_score
        ELSE IF role_norm \in DOMAIN ROLE_AFFINITY /\ shift_norm \in ROLE_AFFINITY[role_norm]
             THEN exact_score
        ELSE IF \E key \in DOMAIN ROLE_AFFINITY :
                   Contains(role_norm, key) /\ shift_norm \in ROLE_AFFINITY[key]
             THEN affinity_score
        ELSE partial_score

(***************************************************************************)
(* The state of one call of generate_plan, and of the process it runs in.  *)
(***************************************************************************)

VARIABLES
    snapshot,           \* employees, assigned_shifts, open_shifts, absences
    profile,            \* policy and employee_rules
    range_from,
    range_to,
    constraint_mode,    \* "strict" or "loose"
    hash_seed,          \* the process's string-hash seed: the iteration order of a set
    pc,                 \* "call", "loop", "done"
    call,               \* 1 for the first call on these inputs, 2 for a repeated one
    open_slots,         \* the in-range slots, sorted
    idx,                \* the position in open_slots of the slot the loop handles next
    state,              \* PlanState
    evaluation_matrix,  \* slot_id -> the slot's sorted evaluations
    plan,               \* the returned plan, once pc = "done"
    first_plan,         \* the plan the first call returned, once call = 2
    call_args,          \* the arguments of the last call of a function on its own
    returned            \* what that call returned or raised

vars ==
    <<snapshot, profile, range_from, range_to, constraint_mode, hash_seed, pc, call,
      open_slots, idx, state, evaluation_matrix, plan, first_plan,
      call_args, returned>>

inputs == <<snapshot, profile, range_from, range_to, constraint_mode>>

calls == <<call_args, returned>>

(***************************************************************************)
(* Python containers                                                       *)
(***************************************************************************)

RECURSIVE SeqSum(_)
SeqSum(s) == IF Len(s) = 0 THEN 0 ELSE Head(s) + SeqSum(Tail(s))

\* The concatenation of a list of lists.
RECURSIVE Flatten(_)
Flatten(ss) == IF Len(ss) = 0 THEN <<>> ELSE Head(ss) \o Flatten(Tail(ss))

\* dict.get(k, default)
Get(d, k, default) == IF k \in DOMAIN d THEN d[k] ELSE default

\* d[k] = v
Put(d, k, v) == [x \in (DOMAIN d) \cup {k} |-> IF x = k THEN v ELSE d[x]]

\* Every reason code, in the order of str.
ReasonOrder ==
    <<"absence", "allowed_days", "already_has_shift_same_day", "blocked_days",
      "consecutive_days_limit", "daily_hours_gt_10", "ends_too_late",
      "max_additional_monthly_hours", "max_salary_limit", "max_weekly_hours",
      "monthly_hours_limit", "no_additional_shifts", "no_weekend", "only_weekend",
      "overlap_same_day", "rest_lt_11h", "starts_too_early", "weekly_hours_limit">>

Reverse(s) == [i \in 1..Len(s) |-> s[Len(s) + 1 - i]]

\* Iterating set(values): the elements in an order the hash seed fixes.
set_iteration(values) ==
    LET asc == SelectSeq(ReasonOrder, LAMBDA r : r \in values)
    IN  IF hash_seed = 0 THEN asc ELSE Reverse(asc)

\* The list as it is, not sorted.
unsorted(values) == values

\* sorted(values), for a list of distinct reason codes.
sorted(values) == SelectSeq(ReasonOrder, LAMBDA r : r \in Range(values))

(***************************************************************************)
(* constraints.py                                                          *)
(***************************************************************************)

OBLIGATORY_BLOCK_REASONS ==
    {"overlap_same_day", "daily_hours_gt_10", "weekly_hours_limit", "rest_lt_11h",
     "consecutive_days_limit", "absence", "already_has_shift_same_day",
     "no_additional_shifts", "max_salary_limit"}

SOFT_BLOCK_REASONS ==
    {"monthly_hours_limit", "max_additional_monthly_hours", "max_weekly_hours",
     "no_weekend", "only_weekend", "starts_too_early", "ends_too_late",
     "allowed_days", "blocked_days"}

(***************************************************************************)
(* allocator.py: hours, history, absences                                  *)
(***************************************************************************)

SCORING ==
    [applicant_bonus |-> 8000, rest_max |-> 4000, fairness_max |-> 3000,
     role_exact |-> 2000, role_partial |-> 1000, fixed_bonus |-> 1200,
     pref_bonus |-> 1500, skill_bonus |-> 1200, salary_warning_penalty |-> -1200]

\* float(s.get("hours") or calc_shift_hours(start, end)), in minutes
ShiftHours(s) == IF s.hours # 0 THEN s.hours ELSE calc_shift_hours(s.start, s.end)

\* The hours of a month when no shift is counted.
_hours_in_month_untracked(shifts, month) == 0

_hours_in_month(shifts, month) ==
    SeqSum([i \in 1..Len(shifts) |->
              IF month_key(shifts[i].date) = month THEN ShiftHours(shifts[i]) ELSE 0])

\* The hours of a week when no shift is counted.
_hours_in_week_untracked(shifts, wk) == 0

_hours_in_week(shifts, wk) ==
    SeqSum([i \in 1..Len(shifts) |->
              IF week_key(shifts[i].date) = wk THEN ShiftHours(shifts[i]) ELSE 0])

_count_shifts_in_week(shifts, wk) ==
    Cardinality({i \in 1..Len(shifts) : week_key(shifts[i].date) = wk})

\* The keys (emp, weekday, start, end) that occur at least 3 times.
_derive_fixed_patterns(assigned_shifts) ==
    LET key(s) == <<s.ordio_employee_id, weekday(s.date), s.start, s.end>>
        rows == {i \in 1..Len(assigned_shifts) : assigned_shifts[i].ordio_employee_id # ""}
    IN  {k \in {key(assigned_shifts[i]) : i \in rows} :
            Cardinality({i \in rows : key(assigned_shifts[i]) = k}) >= 3}

_collect_existing_shifts(snap, emp_id) ==
    LET mine == SelectSeq(snap.assigned_shifts, LAMBDA s : s.ordio_employee_id = emp_id)
    IN  List([i \in 1..Len(mine) |->
                [date |-> mine[i].date, start |-> mine[i].start, end |-> mine[i].end,
                 hours |-> ShiftHours(mine[i])]])

\* The absence check without the last day of the range.
_has_absence_exclusive(absences, slot_date) ==
    \E i \in 1..Len(absences) :
        absences[i].start_date <= slot_date /\ slot_date < absences[i].end_date

_has_absence(absences, slot_date) ==
    \E i \in 1..Len(absences) :
        absences[i].start_date <= slot_date /\ slot_date <= absences[i].end_date

\* parse_hhmm_to_minutes(value) or 0
ParseOr0(value) ==
    IF parse_hhmm_to_minutes(value) = None THEN 0 ELSE parse_hhmm_to_minutes(value)

RECURSIVE StreakBack(_, _)
StreakBack(d, working_days) ==
    IF d - 1 \in working_days THEN 1 + StreakBack(d - 1, working_days) ELSE 0

\* The streak after the day when no later day is looked at.
StreakForwardUnseen(d, working_days) == 0

RECURSIVE StreakForward(_, _)
StreakForward(d, working_days) ==
    IF d + 1 \in working_days THEN 1 + StreakForward(d + 1, working_days) ELSE 0

\* The checks that look at the rest before the slot only.
_arbzg_violations_backward(existing, run, slot, weekly_limit, max_consecutive_days) ==
    LET all_shifts == existing \o run
        datum == slot.date
        hours == ShiftHours(slot)
        same_day == SelectSeq(all_shifts, LAMBDA s : s.date = datum)
        day_hours == hours + SeqSum([i \in 1..Len(same_day) |-> same_day[i].hours])
        week_hours == hours + _hours_in_week(all_shifts, week_key(datum))
        working_days == {datum} \cup {all_shifts[i].date : i \in 1..Len(all_shifts)}
        streak == 1 + StreakBack(datum, working_days) + StreakForward(datum, working_days)
        violations ==
            (IF \E i \in 1..Len(same_day) :
                   time_overlap(slot.start, slot.end, same_day[i].start, same_day[i].end)
             THEN {"overlap_same_day"} ELSE {})
            \cup (IF day_hours > 10 * 60 THEN {"daily_hours_gt_10"} ELSE {})
            \cup (IF week_hours > weekly_limit * 60 THEN {"weekly_hours_limit"} ELSE {})
            \cup (IF \E i \in 1..Len(all_shifts) :
                       /\ all_shifts[i].date = datum - 1
                       /\ (24 * 60 - ParseOr0(all_shifts[i].end)) + ParseOr0(slot.start) < 11 * 60
                  THEN {"rest_lt_11h"} ELSE {})
            \cup (IF streak > max_consecutive_days THEN {"consecutive_days_limit"} ELSE {})
    IN  sorted(set_iteration(violations))

\* weekly_limit in hours.
_arbzg_violations(existing, run, slot, weekly_limit, max_consecutive_days) ==
    LET all_shifts == existing \o run
        datum == slot.date
        hours == ShiftHours(slot)
        same_day == SelectSeq(all_shifts, LAMBDA s : s.date = datum)
        day_hours == hours + SeqSum([i \in 1..Len(same_day) |-> same_day[i].hours])
        week_hours == hours + _hours_in_week(all_shifts, week_key(datum))
        prev_day == datum - 1
        next_day == datum + 1
        slot_start == ParseOr0(slot.start)
        slot_end == ParseOr0(slot.end)
        working_days == {datum} \cup {all_shifts[i].date : i \in 1..Len(all_shifts)}
        streak == 1 + StreakBack(datum, working_days) + StreakForward(datum, working_days)
        violations ==
            (IF \E i \in 1..Len(same_day) :
                   time_overlap(slot.start, slot.end, same_day[i].start, same_day[i].end)
             THEN {"overlap_same_day"} ELSE {})
            \cup (IF day_hours > 10 * 60 THEN {"daily_hours_gt_10"} ELSE {})
            \cup (IF week_hours > weekly_limit * 60 THEN {"weekly_hours_limit"} ELSE {})
            \cup (IF \E i \in 1..Len(all_shifts) :
                       \/ /\ all_shifts[i].date = prev_day
                          /\ (24 * 60 - ParseOr0(all_shifts[i].end)) + slot_start < 11 * 60
                       \/ /\ all_shifts[i].date = next_day
                          /\ (24 * 60 - slot_end) + ParseOr0(all_shifts[i].start) < 11 * 60
                  THEN {"rest_lt_11h"} ELSE {})
            \cup (IF streak > max_consecutive_days THEN {"consecutive_days_limit"} ELSE {})
    IN  sorted(set_iteration(violations))

(***************************************************************************)
(* allocator.py: the candidate evaluator                                   *)
(***************************************************************************)

_role_score(employee, slot) ==
    compute_role_match_score(canonical_name(employee.role), canonical_name(slot.shift_type),
                             SCORING.role_exact, SCORING.role_exact, SCORING.role_partial)

_skill_score(employee, slot, rule) ==
    LET tags == {canonical_name(slot.shift_type), canonical_name(slot.working_area)}
        skills == {canonical_name(x) : x \in employee.skills}
        pref_areas == {canonical_name(x) : x \in rule.preferred_working_areas}
    IN  IF tags \cap skills # {} THEN SCORING.skill_bonus
        ELSE IF tags \cap pref_areas # {} THEN SCORING.skill_bonus
        ELSE 0

_fixed_shift_bonus(fixed_patterns, emp_id, slot) ==
    IF <<emp_id, weekday(slot.date), slot.start, slot.end>> \in fixed_patterns
    THEN SCORING.fixed_bonus ELSE 0

_preference_score_and_violations(prefs, slot) ==
    evaluate_shift_preferences(prefs, slot.shift_type, slot.date, slot.start, slot.end,
                               SCORING.pref_bonus, -3500)

\* The keys of score_detail, in the order the dict is built.
DetailKeys ==
    <<"rest", "fairness", "role", "skill", "fixed", "preference", "applicant", "salary">>

Abs(x) == IF x < 0 THEN -x ELSE x

\* sorted(score_detail.items(), key=abs(value), reverse=True): stable, so
\* equal values keep the dict's order.
ComponentsByWeight(score_detail) ==
    LET weight == List([i \in 1..Len(DetailKeys) |-> Abs(score_detail[DetailKeys[i]])])
        before(i, j) == weight[i] > weight[j] \/ (weight[i] = weight[j] /\ i < j)
        place == List([i \in 1..Len(DetailKeys) |->
                        1 + Cardinality({j \in 1..Len(DetailKeys) : before(j, i)})])
    IN  List([p \in 1..Len(DetailKeys) |->
                DetailKeys[CHOOSE i \in 1..Len(DetailKeys) : place[i] = p]])

ReasonLabel(key, value) ==
    CASE key = "applicant" /\ value > 0 -> "applied_for_shift"
      [] key = "rest" /\ value > 0 -> "remaining_target_hours"
      [] key = "fairness" /\ value > 0 -> "fair_distribution"
      [] key = "role" /\ value > 0 -> "role_shift_match"
      [] key = "skill" /\ value > 0 -> "skill_working_area_match"
      [] key = "fixed" /\ value > 0 -> "historical_fixed_pattern"
      [] key = "preference" /\ value > 0 -> "matches_employee_preferences"
      [] key = "salary" /\ value < 0 -> "near_salary_limit"
      [] OTHER -> ""

\* The first three labels of the components, heaviest first.
ReasonLabels(score_detail) ==
    LET components == ComponentsByWeight(score_detail)
        labels == SelectSeq(List([i \in 1..Len(components) |->
                                    ReasonLabel(components[i], score_detail[components[i]])]),
                            LAMBDA l : l # "")
    IN  SubSeq(labels, 1, Min(3, Len(labels)))

_score_candidate(employee, slot, rule, prefs, is_applicant, existing_shifts, run_shifts, absences, fixed_patterns, policy, run_extra_month_hours, mode) ==
    LET emp_id == employee.ordio_employee_id
        emp_name == IF employee.full_name # "" THEN employee.full_name ELSE emp_id
        slot_hours == ShiftHours(slot)
        slot_month == month_key(slot.date)
        slot_week == week_key(slot.date)
        weekly_cap == _effective_weekly_cap(employee, rule)
        max_consecutive_days ==
            IF Get(policy, "max_consecutive_days", 0) # 0
            THEN policy.max_consecutive_days ELSE 5
        arbzg == _arbzg_violations(existing_shifts, run_shifts, slot, weekly_cap,
                                   max_consecutive_days)
        month_cap == _effective_monthly_cap(employee, rule)
        existing_month_hours == _hours_in_month(existing_shifts, slot_month)
        run_month_hours == _hours_in_month(run_shifts, slot_month)
        projected_month_hours == existing_month_hours + run_month_hours + slot_hours
        over_month == month_cap # NoCap /\ ExceedsCap(projected_month_hours, month_cap)
        over_extra ==
            /\ rule.max_additional_monthly_hours # None
            /\ run_extra_month_hours + slot_hours > rule.max_additional_monthly_hours * 60
        over_week ==
            /\ rule.max_weekly_hours # None
            /\ _hours_in_week(run_shifts, slot_week) + slot_hours > rule.max_weekly_hours * 60
        advisory ==
            (IF over_month THEN <<"monthly_hours_limit">> ELSE <<>>)
            \o (IF over_extra THEN <<"max_additional_monthly_hours">> ELSE <<>>)
            \o (IF over_week THEN <<"max_weekly_hours">> ELSE <<>>)
        wage == employee.hourly_wage
        max_salary == employee.max_salary
        has_salary == wage > 0 /\ max_salary > 0
        \* projected_salary > max_salary, with projected_salary = hours * wage
        over_salary == has_salary /\ projected_month_hours * wage > max_salary * 60
        pref == _preference_score_and_violations(prefs, slot)
        pref_viol == pref[2]
        blocked_reasons ==
            (IF rule.no_additional_shifts THEN <<"no_additional_shifts">> ELSE <<>>)
            \o (IF _has_absence(absences, slot.date) THEN <<"absence">> ELSE <<>>)
            \o (IF \E s \in Range(existing_shifts \o run_shifts) : s.date = slot.date
                THEN <<"already_has_shift_same_day">> ELSE <<>>)
            \o arbzg
            \o (IF mode = "loose" THEN <<>> ELSE advisory)
            \o (IF over_salary THEN <<"max_salary_limit">> ELSE <<>>)
            \o (IF mode = "loose" THEN <<>> ELSE pref_viol)
        soft_violations ==
            IF mode = "loose" THEN advisory \o pref_viol ELSE <<>>
        blocked == blocked_reasons # <<>>
        target_hours == _target_hours_for_scoring(employee, rule)
        has_target == target_hours # NoCap /\ target_hours.num # 0
        \* remaining / target, as a fraction of hundredths: 60 * target - minutes
        \* over 60 * target.
        remaining_num ==
            Max(60 * target_hours.num - (existing_month_hours + run_month_hours) * target_hours.den, 0)
        rest_score ==
            IF has_target /\ target_hours.num > 0
            THEN Min(RoundHalfEven(remaining_num * SCORING.rest_max, 60 * target_hours.num),
                     SCORING.rest_max)
            ELSE SCORING.rest_max \div 2
        week_shift_count == _count_shifts_in_week(existing_shifts \o run_shifts, slot_week)
        fairness_score == Max(SCORING.fairness_max - 600 * week_shift_count, 0)
        salary_penalty ==
            IF has_salary /\ projected_month_hours * wage * 10 > 9 * max_salary * 60
            THEN SCORING.salary_warning_penalty ELSE 0
        preferred_types == {canonical_name(v) : v \in rule.preferred_shift_types}
        pref_score ==
            pref[1] + (IF preferred_types # {} /\ canonical_name(slot.shift_type) \in preferred_types
                       THEN SCORING.pref_bonus \div 2 ELSE 0)
        score_detail ==
            [rest |-> rest_score, fairness |-> fairness_score,
             role |-> _role_score(employee, slot),
             skill |-> _skill_score(employee, slot, rule),
             fixed |-> _fixed_shift_bonus(fixed_patterns, emp_id, slot),
             preference |-> pref_score,
             applicant |-> IF is_applicant THEN SCORING.applicant_bonus ELSE 0,
             salary |-> salary_penalty]
        score ==
            IF ~blocked
            THEN SeqSum([i \in 1..Len(DetailKeys) |-> score_detail[DetailKeys[i]]])
            ELSE 0
    IN  [ordio_employee_id |-> emp_id,
         employee_name |-> emp_name,
         score |-> score,
         blocked |-> blocked,
         is_applicant |-> is_applicant,
         reasons |-> ReasonLabels(score_detail),
         blocked_reasons |-> sorted(set_iteration(Range(blocked_reasons))),
         score_detail |-> score_detail,
         hours_existing_month |-> RoundHalfEven(existing_month_hours * 100, 60),
         hours_run_month |-> RoundHalfEven(run_month_hours * 100, 60),
         target_hours |-> IF target_hours = NoCap THEN None
                          ELSE RoundHalfEven(target_hours.num * 100, target_hours.den),
         week_shifts |-> week_shift_count,
         projected_salary |-> IF has_salary
                              THEN RoundHalfEven(projected_month_hours * wage * 100, 60)
                              ELSE None,
         soft_violations |-> soft_violations]

(***************************************************************************)
(* allocator.py: generate_plan                                             *)
(***************************************************************************)

\* list.sort(key=...): stable; less holds the pairs of positions whose keys
\* are in order.
SortBy(list, less) ==
    LET s == List(list)
        before(j, i) == <<j, i>> \in less \/ (<<i, j>> \notin less /\ j < i)
        place == List([i \in 1..Len(s) |-> 1 + Cardinality({j \in 1..Len(s) : before(j, i)})])
    IN  List([p \in 1..Len(s) |-> s[CHOOSE i \in 1..Len(s) : place[i] = p]])

\* The pairs of positions of a list.
Pairs(list) == (1..Len(list)) \X (1..Len(list))

\* The order of two zero-padded "HH:MM" strings.
TimeStrLess(a, b) == a[1] < b[1] \/ (a[1] = b[1] /\ a[2] < b[2])

\* The order of the slots by date, start and id alone.
_slot_sort_key_by_date(a, b) ==
    \/ a.date < b.date
    \/ /\ a.date = b.date
       /\ \/ TimeStrLess(a.start, b.start)
          \/ /\ a.start = b.start
             /\ StrRank(a.slot_id) < StrRank(b.slot_id)

\* _slot_sort_key(a) < _slot_sort_key(b)
_slot_sort_key(a, b) ==
    LET has_apps(slot) == IF slot.applicant_employee_ids # {} THEN 1 ELSE 0
    IN  \/ -has_apps(a) < -has_apps(b)
        \/ /\ has_apps(a) = has_apps(b)
           /\ \/ a.date < b.date
              \/ /\ a.date = b.date
                 /\ \/ TimeStrLess(a.start, b.start)
                    \/ /\ a.start = b.start
                       /\ StrRank(a.slot_id) < StrRank(b.slot_id)

\* The key (blocked, -score): equal scores stay in the order of the dict.
EvalLessByScore(a, b) ==
    LET ba == IF a.blocked THEN 1 ELSE 0
        bb == IF b.blocked THEN 1 ELSE 0
    IN  \/ ba < bb
        \/ ba = bb /\ -a.score < -b.score

\* The key of evals.sort: (blocked, -score, canonical name, id).
EvalLess(a, b) ==
    LET ba == IF a.blocked THEN 1 ELSE 0
        bb == IF b.blocked THEN 1 ELSE 0
        na == StrRank(canonical_name(a.employee_name))
        nb == StrRank(canonical_name(b.employee_name))
    IN  \/ ba < bb
        \/ /\ ba = bb
           /\ \/ -a.score < -b.score
              \/ /\ a.score = b.score
                 /\ \/ na < nb
                    \/ /\ na = nb
                       /\ StrRank(a.ordio_employee_id) < StrRank(b.ordio_employee_id)

\* The slot is one of the requested range.
\* The range check without its lower end.
InRangeUpTo(slot, from, to) == slot.date <= to

InRange(slot, from, to) == from <= slot.date /\ slot.date <= to

\* open_slots: the in-range open shifts with their hours, sorted.
OpenSlots(snap, from, to) ==
    LET kept == SelectSeq(snap.open_shifts, LAMBDA slot : InRange(slot, from, to))
        withHours == List([i \in 1..Len(kept) |-> [kept[i] EXCEPT !.hours = ShiftHours(kept[i])]])
    IN  SortBy(withHours,
               {ij \in Pairs(withHours) :
                   _slot_sort_key(withHours[ij[1]], withHours[ij[2]])})

\* employee_by_id, in dict order: the employees that have an id.
EmployeeById(snap) == SelectSeq(snap.employees, LAMBDA e : e.ordio_employee_id # "")

\* abs_by_emp[emp_id]
AbsencesOf(snap, emp_id) ==
    SelectSeq(snap.absences, LAMBDA ab : ab.ordio_employee_id = emp_id)

_initial_state ==
    [assignments |-> <<>>, unassigned |-> <<>>,
     run_assignments_by_emp |-> <<>>,
     run_hours_by_emp_month |-> <<>>,
     run_hours_by_emp_week |-> <<>>,
     run_shift_count_by_emp_week |-> <<>>,
     run_days_by_emp |-> <<>>,
     run_total_hours_by_emp |-> <<>>]

\* profile.get("policy"): a record of the keys the profile sets.
Policy(prof) == prof.policy

\* The evaluation that looks the employee's rule up in no profile.
EvaluateEmployeeWithoutRules(emp, slot, st) ==
    LET emp_id == emp.ordio_employee_id
        rule == _employee_rule(emp, <<>>)
    IN  _score_candidate(emp, slot, rule,
                         parse_simple_shift_preferences(rule.notes),
                         emp_id \in slot.applicant_employee_ids,
                         _collect_existing_shifts(snapshot, emp_id),
                         Get(st.run_assignments_by_emp, emp_id, <<>>),
                         AbsencesOf(snapshot, emp_id),
                         _derive_fixed_patterns(snapshot.assigned_shifts),
                         Policy(profile),
                         Get(st.run_hours_by_emp_month, <<emp_id, month_key(slot.date)>>, 0),
                         constraint_mode)

\* The evaluation that is strict whatever the mode of the run.
EvaluateEmployeeStrict(emp, slot, st) ==
    LET emp_id == emp.ordio_employee_id
        rule == _employee_rule(emp, _normalize_rule_lookup(profile))
    IN  _score_candidate(emp, slot, rule,
                         parse_simple_shift_preferences(rule.notes),
                         emp_id \in slot.applicant_employee_ids,
                         _collect_existing_shifts(snapshot, emp_id),
                         Get(st.run_assignments_by_emp, emp_id, <<>>),
                         AbsencesOf(snapshot, emp_id),
                         _derive_fixed_patterns(snapshot.assigned_shifts),
                         Policy(profile),
                         Get(st.run_hours_by_emp_month, <<emp_id, month_key(slot.date)>>, 0),
                         "strict")

\* The evaluation of one employee for one slot in run state st (lines 603-619).
EvaluateEmployee(emp, slot, st) ==
    LET emp_id == emp.ordio_employee_id
        rule == _employee_rule(emp, _normalize_rule_lookup(profile))
    IN  _score_candidate(emp, slot, rule,
                         parse_simple_shift_preferences(rule.notes),
                         emp_id \in slot.applicant_employee_ids,
                         _collect_existing_shifts(snapshot, emp_id),
                         Get(st.run_assignments_by_emp, emp_id, <<>>),
                         AbsencesOf(snapshot, emp_id),
                         _derive_fixed_patterns(snapshot.assigned_shifts),
                         Policy(profile),
                         Get(st.run_hours_by_emp_month, <<emp_id, month_key(slot.date)>>, 0),
                         constraint_mode)

\* evals, sorted (lines 600-623).
SortedEvals(slot, st) ==
    LET emps == EmployeeById(snapshot)
        evals == List([i \in 1..Len(emps) |-> EvaluateEmployee(emps[i], slot, st)])
    IN  SortBy(evals, {ij \in Pairs(evals) : EvalLess(evals[ij[1]], evals[ij[2]])})

\* The pool that does not look at who applied.
SelectedPoolByScore(evals, slot) == SelectSeq(evals, LAMBDA e : ~e.blocked)

\* The pool that keeps the blocked evaluations.
SelectedPoolOfAll(evals, slot) ==
    LET has_applicants == slot.applicant_employee_ids # {}
        applicant_pool == SelectSeq(evals, LAMBDA e : e.is_applicant)
    IN  IF /\ has_applicants
           /\ Get(Policy(profile), "prefer_applicants", TRUE)
           /\ applicant_pool # <<>>
        THEN applicant_pool
        ELSE evals

\* The pool of a slot with applicants that holds applicants only.
SelectedPoolOfApplicants(evals, slot) ==
    LET valid == SelectSeq(evals, LAMBDA e : ~e.blocked)
        has_applicants == slot.applicant_employee_ids # {}
    IN  IF has_applicants /\ Get(Policy(profile), "prefer_applicants", TRUE)
        THEN SelectSeq(valid, LAMBDA e : e.is_applicant)
        ELSE valid

\* selected_pool (lines 642-649).
SelectedPool(evals, slot) ==
    LET valid == SelectSeq(evals, LAMBDA e : ~e.blocked)
        has_applicants == slot.applicant_employee_ids # {}
        applicant_pool == SelectSeq(valid, LAMBDA e : e.is_applicant)
    IN  IF /\ has_applicants
           /\ Get(Policy(profile), "prefer_applicants", TRUE)
           /\ applicant_pool # <<>>
        THEN applicant_pool
        ELSE valid

\* The reason that asks for applicants before it asks whether all are blocked.
UnassignedReasonApplicantsFirst(evals, slot) ==
    IF evals = <<>> THEN "no_candidates_available"
    ELSE IF slot.applicant_employee_ids # {} THEN "all_applicants_blocked"
    ELSE IF \A e \in Range(evals) : e.blocked THEN "all_candidates_blocked_by_constraints"
    ELSE "no_valid_candidate"

UnassignedReason(evals, slot) ==
    IF evals = <<>> THEN "no_candidates_available"
    ELSE IF \A e \in Range(evals) : e.blocked THEN "all_candidates_blocked_by_constraints"
    ELSE IF slot.applicant_employee_ids # {} THEN "all_applicants_blocked"
    ELSE "no_valid_candidate"

MatrixRow(e) ==
    [employee_id |-> e.ordio_employee_id, employee_name |-> e.employee_name,
     score |-> e.score, blocked |-> e.blocked, is_applicant |-> e.is_applicant,
     blocked_reasons |-> e.blocked_reasons, score_detail |-> e.score_detail,
     target_hours |-> e.target_hours, month_hours_before |-> e.hours_run_month,
     soft_violations |-> e.soft_violations]

UnassignedRecord(slot, evals) ==
    LET top == SubSeq(evals, 1, Min(5, Len(evals)))
    IN  [slot_id |-> slot.slot_id, date |-> slot.date, start |-> slot.start,
         end |-> slot.end, shift_type |-> slot.shift_type,
         working_area |-> slot.working_area,
         reason |-> UnassignedReason(evals, slot),
         top_candidates |->
            [i \in 1..Len(top) |->
                [ordio_employee_id |-> top[i].ordio_employee_id,
                 employee_name |-> top[i].employee_name,
                 blocked_reasons |-> top[i].blocked_reasons,
                 score |-> top[i].score,
                 is_applicant |-> top[i].is_applicant]]]

AssignmentKind(best, slot) ==
    IF best.is_applicant THEN "applicant"
    ELSE IF slot.applicant_employee_ids = {} THEN "recommendation_without_applicant"
    ELSE "recommendation_despite_applicants"

AssignmentRecord(slot, best, evals) ==
    LET others == SelectSeq(SubSeq(evals, 1, Min(8, Len(evals))),
                            LAMBDA e : e.ordio_employee_id # best.ordio_employee_id)
    IN  [assignment_id |-> <<slot.slot_id, best.ordio_employee_id>>,
         slot_id |-> slot.slot_id, date |-> slot.date, start |-> slot.start,
         end |-> slot.end, hours |-> RoundHalfEven(slot.hours * 100, 60),
         shift_type |-> slot.shift_type, working_area |-> slot.working_area,
         ordio_employee_id |-> best.ordio_employee_id,
         employee_name |-> best.employee_name,
         score |-> best.score, is_applicant |-> best.is_applicant,
         assignment_kind |-> AssignmentKind(best, slot),
         reasons |-> best.reasons, blocked_reasons |-> best.blocked_reasons,
         score_detail |-> best.score_detail, week_shifts |-> best.week_shifts,
         existing_month_hours |-> best.hours_existing_month,
         run_month_hours_before |-> best.hours_run_month,
         target_hours |-> best.target_hours,
         projected_salary |-> best.projected_salary,
         alternatives |->
            [i \in 1..Len(others) |->
                [ordio_employee_id |-> others[i].ordio_employee_id,
                 employee_name |-> others[i].employee_name,
                 score |-> others[i].score, blocked |-> others[i].blocked,
                 is_applicant |-> others[i].is_applicant,
                 reasons |-> others[i].reasons,
                 blocked_reasons |-> others[i].blocked_reasons,
                 score_detail |-> others[i].score_detail]],
         soft_violations |-> best.soft_violations]

\* Reading the defaultdict run_hours_by_emp_month[(emp_id, month)] for every
\* employee stores 0.0 under the keys it lacks (line 617).
TouchMonth(st, slot) ==
    LET emps == EmployeeById(snapshot)
        keys == {<<emps[i].ordio_employee_id, month_key(slot.date)>> : i \in 1..Len(emps)}
        d == st.run_hours_by_emp_month
    IN  [st EXCEPT !.run_hours_by_emp_month =
            [k \in (DOMAIN d) \cup keys |-> IF k \in DOMAIN d THEN d[k] ELSE 0]]

\* The run state that does not keep the winner's shift.
RecordRunStateWithoutShift(st, slot, emp_id) ==
    LET m_key == month_key(slot.date)
        w_key == week_key(slot.date)
    IN  [st EXCEPT
            !.run_hours_by_emp_month =
                Put(@, <<emp_id, m_key>>, Get(@, <<emp_id, m_key>>, 0) + slot.hours),
            !.run_hours_by_emp_week =
                Put(@, <<emp_id, w_key>>, Get(@, <<emp_id, w_key>>, 0) + slot.hours),
            !.run_shift_count_by_emp_week =
                Put(@, <<emp_id, w_key>>, Get(@, <<emp_id, w_key>>, 0) + 1),
            !.run_days_by_emp =
                Put(@, emp_id, Get(@, emp_id, {}) \cup {slot.date}),
            !.run_total_hours_by_emp =
                Put(@, emp_id, Get(@, emp_id, 0) + slot.hours)]

\* The run state that does not add the slot's hours to the winner's total.
RecordRunStateWithoutTotal(st, slot, emp_id) ==
    LET m_key == month_key(slot.date)
        w_key == week_key(slot.date)
        shift == [date |-> slot.date, start |-> slot.start, end |-> slot.end,
                  hours |-> slot.hours]
    IN  [st EXCEPT
            !.run_assignments_by_emp =
                Put(@, emp_id, Append(Get(@, emp_id, <<>>), shift)),
            !.run_hours_by_emp_month =
                Put(@, <<emp_id, m_key>>, Get(@, <<emp_id, m_key>>, 0) + slot.hours),
            !.run_hours_by_emp_week =
                Put(@, <<emp_id, w_key>>, Get(@, <<emp_id, w_key>>, 0) + slot.hours),
            !.run_shift_count_by_emp_week =
                Put(@, <<emp_id, w_key>>, Get(@, <<emp_id, w_key>>, 0) + 1),
            !.run_days_by_emp =
                Put(@, emp_id, Get(@, emp_id, {}) \cup {slot.date})]

\* Lines 684-702: the winner's run state.
RecordRunState(st, slot, emp_id) ==
    LET m_key == month_key(slot.date)
        w_key == week_key(slot.date)
        shift == [date |-> slot.date, start |-> slot.start, end |-> slot.end,
                  hours |-> slot.hours]
    IN  [st EXCEPT
            !.run_assignments_by_emp =
                Put(@, emp_id, Append(Get(@, emp_id, <<>>), shift)),
            !.run_hours_by_emp_month =
                Put(@, <<emp_id, m_key>>, Get(@, <<emp_id, m_key>>, 0) + slot.hours),
            !.run_hours_by_emp_week =
                Put(@, <<emp_id, w_key>>, Get(@, <<emp_id, w_key>>, 0) + slot.hours),
            !.run_shift_count_by_emp_week =
                Put(@, <<emp_id, w_key>>, Get(@, <<emp_id, w_key>>, 0) + 1),
            !.run_days_by_emp =
                Put(@, emp_id, Get(@, emp_id, {}) \cup {slot.date}),
            !.run_total_hours_by_emp =
                Put(@, emp_id, Get(@, emp_id, 0) + slot.hours)]

\* One pass of the loop over open_slots (lines 642-753), evals being the
\* slot's sorted evaluations.
StepState(st, slot, evals) ==
    LET selected_pool == SelectedPool(evals, slot)
        touched == TouchMonth(st, slot)
    IN  IF selected_pool = <<>>
        THEN [touched EXCEPT !.unassigned = Append(@, UnassignedRecord(slot, evals))]
        ELSE [RecordRunState(touched, slot, selected_pool[1].ordio_employee_id)
                EXCEPT !.assignments = Append(@, AssignmentRecord(slot, selected_pool[1], evals))]

(***************************************************************************)
(* allocator.py: the plan                                                  *)
(***************************************************************************)

\* The distinct values of a list, in the order of their first occurrence.
FirstOccurrences(s) ==
    SelectSeq([i \in 1..Len(s) |-> IF \E j \in 1..(i - 1) : s[j] = s[i] THEN <<>> ELSE <<s[i]>>],
              LAMBDA x : x # <<>>)

\* fairness_overview with the delta taken from the target down to the hours.
fairness_overview_target_minus_hours(assignments) ==
    LET name(row) == IF row.employee_name # "" THEN row.employee_name ELSE row.ordio_employee_id
        names == FirstOccurrences([i \in 1..Len(assignments) |-> name(assignments[i])])
        rowsOf(n) == SelectSeq(assignments, LAMBDA row : name(row) = n)
        hours(n) == SeqSum([i \in 1..Len(rowsOf(n)) |-> rowsOf(n)[i].hours])
        withTarget(n) == SelectSeq(rowsOf(n), LAMBDA row : row.target_hours # None)
        target(n) == IF withTarget(n) = <<>> THEN 0
                     ELSE withTarget(n)[Len(withTarget(n))].target_hours
        result == [i \in 1..Len(names) |->
                    [employee_name |-> names[i][1],
                     assigned_hours |-> hours(names[i][1]),
                     assigned_slots |-> Len(rowsOf(names[i][1])),
                     target_hours |-> IF target(names[i][1]) # 0 THEN target(names[i][1]) ELSE None,
                     delta_to_target |-> IF target(names[i][1]) # 0
                                         THEN <<target(names[i][1]) - hours(names[i][1])>>
                                         ELSE <<>>]]
    IN  SortBy(result,
               {ij \in Pairs(result) :
                   result[ij[1]].assigned_hours > result[ij[2]].assigned_hours})

\* Hours are hundredths of an hour; delta_to_target is <<>> for None.
fairness_overview(assignments) ==
    LET name(row) == IF row.employee_name # "" THEN row.employee_name ELSE row.ordio_employee_id
        names == FirstOccurrences([i \in 1..Len(assignments) |-> name(assignments[i])])
        rowsOf(n) == SelectSeq(assignments, LAMBDA row : name(row) = n)
        hours(n) == SeqSum([i \in 1..Len(rowsOf(n)) |-> rowsOf(n)[i].hours])
        withTarget(n) == SelectSeq(rowsOf(n), LAMBDA row : row.target_hours # None)
        target(n) == IF withTarget(n) = <<>> THEN 0
                     ELSE withTarget(n)[Len(withTarget(n))].target_hours
        result == [i \in 1..Len(names) |->
                    [employee_name |-> names[i][1],
                     assigned_hours |-> hours(names[i][1]),
                     assigned_slots |-> Len(rowsOf(names[i][1])),
                     target_hours |-> IF target(names[i][1]) # 0 THEN target(names[i][1]) ELSE None,
                     delta_to_target |-> IF target(names[i][1]) # 0
                                         THEN <<hours(names[i][1]) - target(names[i][1])>>
                                         ELSE <<>>]]
    IN  SortBy(result,
               {ij \in Pairs(result) :
                   result[ij[1]].assigned_hours > result[ij[2]].assigned_hours})

\* uuid4 and the clock: what a call may draw.  The first call's draw is fixed;
\* a later call may draw the same or another value, the clock never less.
PlanIds(c) == IF c = 1 THEN {"plan-a"} ELSE {"plan-a", "plan-b"}

now_utc_iso(c) == IF c = 1 THEN {1} ELSE {1, 2}

\* Lines 755-800.
BuildPlan(st, matrix, plan_id, generated_at) ==
    LET total_slots == Len(st.assignments) + Len(st.unassigned)
        kinds == {st.assignments[i].assignment_kind : i \in 1..Len(st.assignments)}
    IN  [plan_id |-> plan_id,
         generated_at |-> generated_at,
         range |-> [from |-> range_from, to |-> range_to],
         assignments |-> st.assignments,
         unassigned |-> st.unassigned,
         metrics |->
            [assigned_slots |-> Len(st.assignments),
             unassigned_slots |-> Len(st.unassigned),
             total_slots |-> total_slots,
             fill_rate |-> IF total_slots # 0
                           THEN RoundHalfEven(Len(st.assignments) * 1000, total_slots)
                           ELSE 0,
             assignment_kind_counts |->
                [k \in kinds |->
                    Cardinality({i \in 1..Len(st.assignments) :
                                    st.assignments[i].assignment_kind = k})]],
         fairness |-> fairness_overview(st.assignments),
         explanation |-> [constraint_policy |-> Policy(profile)],
         evaluation_matrix |-> matrix,
         soft_violations |->
            IF constraint_mode = "loose"
            THEN <<TRUE,
                   Flatten([i \in 1..Len(st.assignments) |->
                      [j \in 1..Len(st.assignments[i].soft_violations) |->
                         [slot_id |-> st.assignments[i].slot_id,
                          employee_id |-> st.assignments[i].ordio_employee_id,
                          violation |-> st.assignments[i].soft_violations[j]]]])>>
            ELSE <<FALSE>>]

NoPlan == <<>>

(***************************************************************************)
(* compare.py.  Hours and scores are hundredths, fill rates tenths, the    *)
(* rounded Gini coefficient ten-thousandths.                               *)
(***************************************************************************)

\* sorted(values), for a set of strings.
sorted_strings(values) == SelectSeq(StrOrder, LAMBDA v : v \in values)

\* _gini over the values in the order they come in.
_gini_unsorted(values) ==
    IF values = <<>> \/ \A i \in 1..Len(values) : values[i] = 0 THEN Rat(0, 1)
    ELSE LET n == Len(values)
             cumulative == SeqSum([i \in 1..n |-> i * values[i]])
             total == SeqSum(values)
         IN  IF total = 0 THEN Rat(0, 1)
             ELSE Rat(2 * cumulative - (n + 1) * total, n * total)

\* _gini (compare.py lines 10-19, the same in eval_lite.py lines 19-29):
\* (2 * cumulative) / (n * total) - (n + 1) / n as one fraction.
_gini(values) ==
    IF values = <<>> \/ \A i \in 1..Len(values) : values[i] = 0 THEN Rat(0, 1)
    ELSE LET sorted_vals ==
                 SortBy(values, {ij \in Pairs(values) : values[ij[1]] < values[ij[2]]})
             n == Len(sorted_vals)
             cumulative == SeqSum([i \in 1..n |-> i * sorted_vals[i]])
             total == SeqSum(sorted_vals)
         IN  IF total = 0 THEN Rat(0, 1)
             ELSE Rat(2 * cumulative - (n + 1) * total, n * total)

\* a.get("employee_name") or a.get("ordio_employee_id", "")
NameOf(a) == IF a.employee_name # "" THEN a.employee_name ELSE a.ordio_employee_id

\* _plan_summary (lines 22-57); _emp_hours is the list of the dict's items.
_plan_summary(p) ==
    LET assignments == Get(p, "assignments", <<>>)
        unassigned == Get(p, "unassigned", <<>>)
        metrics == Get(p, "metrics", <<>>)
        total == IF "total_slots" \in DOMAIN metrics THEN metrics.total_slots
                 ELSE Len(assignments) + Len(unassigned)
        fill_rate == IF "fill_rate" \in DOMAIN metrics THEN metrics.fill_rate
                     ELSE RoundHalfEven(Len(assignments) * 1000, Max(1, total))
        scores == [i \in 1..Len(assignments) |-> assignments[i].score]
        names == FirstOccurrences([i \in 1..Len(assignments) |-> NameOf(assignments[i])])
        hoursOf(n) ==
            SeqSum([i \in 1..Len(assignments) |->
                       IF NameOf(assignments[i]) = n THEN assignments[i].hours ELSE 0])
        emp_hours == List([i \in 1..Len(names) |->
                              [name |-> names[i][1], hours |-> hoursOf(names[i][1])]])
        gini == _gini([i \in 1..Len(emp_hours) |-> emp_hours[i].hours])
        kinds == {assignments[i].assignment_kind : i \in 1..Len(assignments)}
    IN  [plan_id |-> Get(p, "plan_id", None),
         profile |-> Get(p, "profile", None),
         mechanism |-> Get(p, "mechanism", None),
         total_slots |-> total,
         assigned |-> Len(assignments),
         unassigned |-> Len(unassigned),
         fill_rate |-> fill_rate,
         mean_score |-> IF scores # <<>> THEN RoundHalfEven(SeqSum(scores), Len(scores)) ELSE 0,
         gini |-> RoundHalfEven(gini.num * 10000, gini.den),
         employees_used |-> Len(emp_hours),
         assignment_kinds |->
            [k \in kinds |->
                Cardinality({i \in 1..Len(assignments) : assignments[i].assignment_kind = k})],
         _emp_hours |->
            SortBy(emp_hours,
                   {ij \in Pairs(emp_hours) : emp_hours[ij[1]].hours > emp_hours[ij[2]].hours})]

\* {a["slot_id"]: a for a in assignments if a.get("slot_id")}: the last
\* assignment of each slot id.
BySlot(assignments) ==
    [slot_id \in {assignments[i].slot_id : i \in 1..Len(assignments)} \ {""} |->
        assignments[CHOOSE i \in 1..Len(assignments) :
                       /\ assignments[i].slot_id = slot_id
                       /\ \A j \in (i + 1)..Len(assignments) : assignments[j].slot_id # slot_id]]

\* What _slot_divergence does with one slot id: the counter it raises and the
\* entry it appends to divergent.
SlotClass(a_by_slot, b_by_slot, slot_id) ==
    IF slot_id \in DOMAIN a_by_slot /\ slot_id \in DOMAIN b_by_slot
    THEN IF a_by_slot[slot_id].ordio_employee_id = b_by_slot[slot_id].ordio_employee_id
         THEN "same_employee" ELSE "different_employee"
    ELSE IF slot_id \in DOMAIN a_by_slot THEN "a_only_assigned"
    ELSE IF slot_id \in DOMAIN b_by_slot THEN "b_only_assigned"
    ELSE "both_unassigned"

\* _slot_divergence with the divergent slots left in the order of their ids.
_slot_divergence_by_slot_id(plan_a, plan_b) ==
    LET a_by_slot == BySlot(Get(plan_a, "assignments", <<>>))
        b_by_slot == BySlot(Get(plan_b, "assignments", <<>>))
        a_unassigned == {u.slot_id : u \in Range(Get(plan_a, "unassigned", <<>>))} \ {""}
        b_unassigned == {u.slot_id : u \in Range(Get(plan_b, "unassigned", <<>>))} \ {""}
        all_slots == DOMAIN a_by_slot \cup DOMAIN b_by_slot \cup a_unassigned \cup b_unassigned
        slots == sorted_strings(all_slots)
        class == List([i \in 1..Len(slots) |-> SlotClass(a_by_slot, b_by_slot, slots[i])])
        count(c) == Cardinality({i \in 1..Len(slots) : class[i] = c})
        differing == SelectSeq(slots, LAMBDA id : SlotClass(a_by_slot, b_by_slot, id) = "different_employee")
        divergent ==
            List([i \in 1..Len(differing) |->
                [slot_id |-> differing[i],
                 date |-> a_by_slot[differing[i]].date,
                 start |-> a_by_slot[differing[i]].start,
                 end |-> a_by_slot[differing[i]].end,
                 shift_type |-> a_by_slot[differing[i]].shift_type,
                 plan_a_employee |-> a_by_slot[differing[i]].employee_name,
                 plan_a_score |-> a_by_slot[differing[i]].score,
                 plan_b_employee |-> b_by_slot[differing[i]].employee_name,
                 plan_b_score |-> b_by_slot[differing[i]].score,
                 score_delta |-> a_by_slot[differing[i]].score - b_by_slot[differing[i]].score]])
        total_comparable == count("same_employee") + count("different_employee")
    IN  [total_slots |-> Cardinality(all_slots),
         same_employee |-> count("same_employee"),
         different_employee |-> count("different_employee"),
         a_only_assigned |-> count("a_only_assigned"),
         b_only_assigned |-> count("b_only_assigned"),
         both_unassigned |-> count("both_unassigned"),
         agreement_rate |-> IF total_comparable # 0
                            THEN RoundHalfEven(count("same_employee") * 1000, total_comparable)
                            ELSE 0,
         top_divergent_slots |-> SubSeq(divergent, 1, Min(10, Len(divergent)))]

\* _slot_divergence (lines 60-123).
_slot_divergence(plan_a, plan_b) ==
    LET a_by_slot == BySlot(Get(plan_a, "assignments", <<>>))
        b_by_slot == BySlot(Get(plan_b, "assignments", <<>>))
        a_unassigned == {u.slot_id : u \in Range(Get(plan_a, "unassigned", <<>>))} \ {""}
        b_unassigned == {u.slot_id : u \in Range(Get(plan_b, "unassigned", <<>>))} \ {""}
        all_slots == DOMAIN a_by_slot \cup DOMAIN b_by_slot \cup a_unassigned \cup b_unassigned
        slots == sorted_strings(all_slots)
        class == List([i \in 1..Len(slots) |-> SlotClass(a_by_slot, b_by_slot, slots[i])])
        count(c) == Cardinality({i \in 1..Len(slots) : class[i] = c})
        differing == SelectSeq(slots, LAMBDA id : SlotClass(a_by_slot, b_by_slot, id) = "different_employee")
        appended ==
            List([i \in 1..Len(differing) |->
                [slot_id |-> differing[i],
                 date |-> a_by_slot[differing[i]].date,
                 start |-> a_by_slot[differing[i]].start,
                 end |-> a_by_slot[differing[i]].end,
                 shift_type |-> a_by_slot[differing[i]].shift_type,
                 plan_a_employee |-> a_by_slot[differing[i]].employee_name,
                 plan_a_score |-> a_by_slot[differing[i]].score,
                 plan_b_employee |-> b_by_slot[differing[i]].employee_name,
                 plan_b_score |-> b_by_slot[differing[i]].score,
                 score_delta |-> a_by_slot[differing[i]].score - b_by_slot[differing[i]].score]])
        divergent ==
            SortBy(appended,
                   {ij \in Pairs(appended) :
                       Abs(appended[ij[1]].score_delta) > Abs(appended[ij[2]].score_delta)})
        total_comparable == count("same_employee") + count("different_employee")
    IN  [total_slots |-> Cardinality(all_slots),
         same_employee |-> count("same_employee"),
         different_employee |-> count("different_employee"),
         a_only_assigned |-> count("a_only_assigned"),
         b_only_assigned |-> count("b_only_assigned"),
         both_unassigned |-> count("both_unassigned"),
         agreement_rate |-> IF total_comparable # 0
                            THEN RoundHalfEven(count("same_employee") * 1000, total_comparable)
                            ELSE 0,
         top_divergent_slots |-> SubSeq(divergent, 1, Min(10, Len(divergent)))]

\* emp.get(name, 0) on the items of _emp_hours
HoursOf(emp_hours, name) ==
    LET mine == SelectSeq(emp_hours, LAMBDA item : item.name = name)
    IN  IF mine = <<>> THEN 0 ELSE mine[1].hours

\* summary without the key _emp_hours, which compare_plans_impl pops
Popped(summary) == [k \in DOMAIN summary \ {"_emp_hours"} |-> summary[k]]

\* compare_plans_impl (lines 126-159).
compare_plans_impl(plan_a, plan_b) ==
    LET summary_a == _plan_summary(plan_a)
        summary_b == _plan_summary(plan_b)
        emp_a == summary_a._emp_hours
        emp_b == summary_b._emp_hours
        all_emps == {emp_a[i].name : i \in 1..Len(emp_a)} \cup {emp_b[i].name : i \in 1..Len(emp_b)}
        names == sorted_strings(all_emps)
        emp_comparison ==
            List([i \in 1..Len(names) |->
                [employee |-> names[i],
                 plan_a_hours |-> HoursOf(emp_a, names[i]),
                 plan_b_hours |-> HoursOf(emp_b, names[i]),
                 delta |-> HoursOf(emp_a, names[i]) - HoursOf(emp_b, names[i])]])
        by_delta ==
            SortBy(emp_comparison,
                   {ij \in Pairs(emp_comparison) :
                       Abs(emp_comparison[ij[1]].delta) > Abs(emp_comparison[ij[2]].delta)})
    IN  [plan_a |-> Popped(summary_a),
         plan_b |-> Popped(summary_b),
         deltas |-> [fill_rate |-> summary_a.fill_rate - summary_b.fill_rate,
                     mean_score |-> summary_a.mean_score - summary_b.mean_score,
                     gini |-> summary_a.gini - summary_b.gini,
                     assigned |-> summary_a.assigned - summary_b.assigned],
         slot_divergence |-> _slot_divergence(plan_a, plan_b),
         employee_comparison |-> SubSeq(by_delta, 1, Min(15, Len(by_delta)))]

(***************************************************************************)
(* constraints.py: the validator of a finished plan.  An assignment        *)
(* records its hours in hundredths; the checks count minutes.              *)
(***************************************************************************)

\* float(a.get("hours") or calc_shift_hours(start, end)), in minutes.
RecordedHours(a) ==
    IF a.hours # 0 THEN (a.hours * 60) \div 100 ELSE calc_shift_hours(a.start, a.end)

\* run_by_emp[emp_id]: the shifts of the employee's assignments, with the
\* index of the assignment each comes from.
RunByEmp(p, emp_id) ==
    LET at == SelectSeq([i \in 1..Len(p.assignments) |-> i],
                        LAMBDA i : p.assignments[i].ordio_employee_id = emp_id)
    IN  List([k \in 1..Len(at) |->
                [at |-> at[k], date |-> p.assignments[at[k]].date,
                 start |-> p.assignments[at[k]].start, end |-> p.assignments[at[k]].end,
                 hours |-> RecordedHours(p.assignments[at[k]])]])

ShiftOfRun(s) == [date |-> s.date, start |-> s.start, end |-> s.end, hours |-> s.hours]

\* The employee's run shifts but the one of the assignment itself.
OtherRunByIndex(p, i) ==
    LET mine == SelectSeq(RunByEmp(p, p.assignments[i].ordio_employee_id), LAMBDA s : s.at # i)
    IN  List([k \in 1..Len(mine) |-> ShiftOfRun(mine[k])])

\* Lines 152-155: the employee's run shifts of another date, start or end.
OtherRun(p, i) ==
    LET a == p.assignments[i]
        mine == SelectSeq(RunByEmp(p, a.ordio_employee_id),
                          LAMBDA s : ~(s.date = a.date /\ s.start = a.start /\ s.end = a.end))
    IN  List([k \in 1..Len(mine) |-> ShiftOfRun(mine[k])])

\* The employee's run shifts, the one of the assignment itself among them.
WholeRun(p, i) ==
    LET mine == RunByEmp(p, p.assignments[i].ordio_employee_id)
    IN  List([k \in 1..Len(mine) |-> ShiftOfRun(mine[k])])

\* Lines 107-186: the violations of one assignment, other_run being the run
\* shifts it is checked against.
ViolationsOfAssignment(p, snap, prof, i, other_run) ==
    LET a == p.assignments[i]
        emp_id == a.ordio_employee_id
        known == SelectSeq(EmployeeById(snap), LAMBDA e : e.ordio_employee_id = emp_id)
        row(v) == [slot_id |-> a.slot_id, employee_id |-> emp_id,
                   employee_name |-> a.employee_name, violation |-> v]
    IN  IF known = <<>> THEN <<row("unknown_employee")>>
        ELSE LET emp == known[Len(known)]
                 rule == _employee_rule(emp, _normalize_rule_lookup(prof))
                 slot_hours == RecordedHours(a)
                 existing == _collect_existing_shifts(snap, emp_id)
                 weekly_cap == _effective_weekly_cap(emp, rule)
                 max_consecutive ==
                     IF Get(Policy(prof), "max_consecutive_days", 0) # 0
                     THEN Policy(prof).max_consecutive_days ELSE 5
                 slot_dict == [date |-> a.date, start |-> a.start, end |-> a.end,
                               hours |-> slot_hours]
                 arbzg == _arbzg_violations(existing, other_run, slot_dict, weekly_cap,
                                            max_consecutive)
                 wage == emp.hourly_wage
                 max_salary == emp.max_salary
                 projected == _hours_in_month(existing, month_key(a.date))
                              + _hours_in_month(other_run, month_key(a.date)) + slot_hours
             IN  (IF rule.no_additional_shifts THEN <<row("no_additional_shifts")>> ELSE <<>>)
                 \o (IF _has_absence(AbsencesOf(snap, emp_id), a.date)
                     THEN <<row("absence")>> ELSE <<>>)
                 \o List([k \in 1..Len(arbzg) |-> row(arbzg[k])])
                 \o (IF wage > 0 /\ max_salary > 0 /\ projected * wage > max_salary * 60
                     THEN <<row("max_salary_limit")>> ELSE <<>>)

\* The validator that checks an assignment against itself too.
validate_plan_against_whole_run(p, snap, prof) ==
    Flatten(List([i \in 1..Len(p.assignments) |->
                    ViolationsOfAssignment(p, snap, prof, i, WholeRun(p, i))]))

validate_plan_hard_constraints(p, snap, prof) ==
    Flatten(List([i \in 1..Len(p.assignments) |->
                    ViolationsOfAssignment(p, snap, prof, i, OtherRun(p, i))]))

(***************************************************************************)
(* Actions                                                                 *)
(***************************************************************************)

\* Lines 566-596: the slots of the range, sorted, and the empty run state.
Prepare ==
    /\ pc = "call"
    /\ open_slots' = OpenSlots(snapshot, range_from, range_to)
    /\ idx' = 1
    /\ state' = _initial_state
    /\ evaluation_matrix' = <<>>
    /\ pc' = "loop"
    /\ UNCHANGED <<inputs, calls, hash_seed, call, plan, first_plan>>

\* Lines 598-753: the next slot is assigned or recorded as unassigned.
ProcessSlot ==
    /\ pc = "loop"
    /\ idx <= Len(open_slots)
    /\ \E slot \in {open_slots[idx]} : \E evals \in {SortedEvals(slot, state)} :
           /\ evaluation_matrix' =
                 Put(evaluation_matrix, slot.slot_id, [i \in 1..Len(evals) |-> MatrixRow(evals[i])])
           /\ state' = StepState(state, slot, evals)
    /\ idx' = idx + 1
    /\ UNCHANGED <<inputs, calls, hash_seed, pc, call, open_slots, plan, first_plan>>

\* Lines 755-800: the plan is built and returned.
Finish ==
    /\ pc = "loop"
    /\ idx > Len(open_slots)
    /\ \E plan_id \in PlanIds(call), generated_at \in now_utc_iso(call) :
          plan' = BuildPlan(state, evaluation_matrix, plan_id, generated_at)
    /\ pc' = "done"
    /\ UNCHANGED <<inputs, calls, hash_seed, call, open_slots, idx, state, evaluation_matrix, first_plan>>

\* An exception that leaves the function: its type.
Raise(type) == [raises |-> type]

\* explain_assignment with all the alternatives of the assignment.
explain_assignment_all_alternatives(p, assignment_id) ==
    LET found == SelectSeq(p.assignments, LAMBDA item : item.assignment_id = assignment_id)
    IN  IF found = <<>> THEN Raise("KeyError")
        ELSE LET item == found[1]
             IN  [assignment_id |-> assignment_id,
                  employee |-> item.employee_name,
                  slot |-> [date |-> item.date, start |-> item.start, end |-> item.end,
                            shift_type |-> item.shift_type,
                            working_area |-> item.working_area],
                  score |-> item.score,
                  reasons |-> item.reasons,
                  score_detail |-> item.score_detail,
                  alternatives |-> item.alternatives]

\* explain_assignment (lines 803-821): the first assignment of the plan with
\* the id, or KeyError.
explain_assignment(p, assignment_id) ==
    LET found == SelectSeq(p.assignments, LAMBDA item : item.assignment_id = assignment_id)
    IN  IF found = <<>> THEN Raise("KeyError")
        ELSE LET item == found[1]
             IN  [assignment_id |-> assignment_id,
                  employee |-> item.employee_name,
                  slot |-> [date |-> item.date, start |-> item.start, end |-> item.end,
                            shift_type |-> item.shift_type,
                            working_area |-> item.working_area],
                  score |-> item.score,
                  reasons |-> item.reasons,
                  score_detail |-> item.score_detail,
                  alternatives |->
                      SubSeq(item.alternatives, 1, Min(5, Len(item.alternatives)))]

\* The ids a caller asks about: those of a slot and an employee (line 727),
\* whether the plan has such an assignment or not.
AssignmentIds ==
    {<<slot.slot_id, emp_id>> :
        slot \in Range(snapshot.open_shifts),
        emp_id \in {"e1", "e2", "e9"}}

\* explain_assignment is called on the returned plan.
Explain ==
    /\ pc = "done"
    /\ \E assignment_id \in AssignmentIds :
          /\ call_args' = <<plan, assignment_id>>
          /\ returned' = explain_assignment(plan, assignment_id)
    /\ UNCHANGED <<inputs, hash_seed, pc, call, open_slots, idx, state,
                   evaluation_matrix, plan, first_plan>>

\* compare_plans_impl is called on two plans.
Compare ==
    /\ pc = "compare"
    /\ call_args' = <<first_plan, plan>>
    /\ returned' = compare_plans_impl(first_plan, plan)
    /\ pc' = "returned"
    /\ UNCHANGED <<inputs, hash_seed, call, open_slots, idx, state,
                   evaluation_matrix, plan, first_plan>>

\* _gini is called on a list of hours.
Gini ==
    /\ pc = "gini"
    /\ returned' = _gini(call_args[1])
    /\ pc' = "returned"
    /\ UNCHANGED <<inputs, call_args, hash_seed, call, open_slots, idx, state,
                   evaluation_matrix, plan, first_plan>>

\* time_overlap is called on two ranges.
TimeOverlap ==
    /\ pc = "time_overlap"
    /\ returned' = time_overlap(call_args[1], call_args[2], call_args[3], call_args[4])
    /\ pc' = "returned"
    /\ UNCHANGED <<inputs, call_args, hash_seed, call, open_slots, idx, state,
                   evaluation_matrix, plan, first_plan>>

\* calc_shift_hours is called on a start and an end.
CalcShiftHours ==
    /\ pc = "calc_shift_hours"
    /\ returned' = calc_shift_hours(call_args[1], call_args[2])
    /\ pc' = "returned"
    /\ UNCHANGED <<inputs, call_args, hash_seed, call, open_slots, idx, state,
                   evaluation_matrix, plan, first_plan>>

\* validate_plan_hard_constraints is called on a plan, with the snapshot and
\* the profile.
Validate ==
    /\ pc = "done"
    /\ call_args' = <<plan, snapshot, profile>>
    /\ returned' = validate_plan_hard_constraints(plan, snapshot, profile)
    /\ pc' = "validated"
    /\ UNCHANGED <<inputs, hash_seed, call, open_slots, idx, state,
                   evaluation_matrix, plan, first_plan>>

HashSeeds == {0, 1}

\* generate_plan is called again on the same inputs, in a process of any hash seed.
Rerun ==
    /\ pc = "done"
    /\ call = 1
    /\ first_plan' = plan
    /\ call' = 2
    /\ hash_seed' \in HashSeeds
    /\ pc' = "call"
    /\ plan' = NoPlan
    /\ open_slots' = <<>>
    /\ idx' = 1
    /\ state' = _initial_state
    /\ evaluation_matrix' = <<>>
    /\ UNCHANGED <<inputs, calls>>

(***************************************************************************)
(* Inputs                                                                  *)
(***************************************************************************)

\* The number of open shifts of a snapshot.
MaxSlots == 2

Employee(id, full, first, employment, wage, max_salary, role, skills) ==
    [ordio_employee_id |-> id, full_name |-> full, first_name |-> first, username |-> "",
     employment |-> employment, hourly_wage |-> wage, max_salary |-> max_salary,
     role |-> role, skills |-> skills]

Rule(changes) ==
    [k \in DOMAIN EmptyRule |-> IF k \in DOMAIN changes THEN changes[k] ELSE EmptyRule[k]]

\* The shifts of the venue: 06:00-14:00 at the counter, 15:00-23:00, and
\* 22:00-06:00 over midnight.
Early == [start |-> <<6, 0>>, end |-> <<14, 0>>, shift_type |-> "", working_area |-> "Theke"]

Late == [start |-> <<15, 0>>, end |-> <<23, 0>>, shift_type |-> "Spaet", working_area |-> ""]

Night == [start |-> <<22, 0>>, end |-> <<6, 0>>, shift_type |-> "Bar", working_area |-> ""]

\* 09:00-15:00 at the counter.
Short == [start |-> <<9, 0>>, end |-> <<15, 0>>, shift_type |-> "", working_area |-> "Theke"]

Slot(date, shape, applicants) ==
    [slot_id |-> "", date |-> date, start |-> shape.start, end |-> shape.end,
     hours |-> 0, shift_type |-> shape.shift_type, working_area |-> shape.working_area,
     applicant_employee_ids |-> applicants]

\* What an open shift may be: a day of the requested range 2..4 (Sunday
\* 2026-11-29 to Tuesday 2026-12-01), early or late, with no applicant, one
\* or two; or a day outside the range.
SlotContents ==
    <<Slot(1, Late, {"e1"})>>
    \o List([k \in 1..18 |->
                Slot(2 + ((k - 1) \div 6),
                     IF ((k - 1) \div 3) % 2 = 0 THEN Early ELSE Late,
                     IF k % 3 = 1 THEN {} ELSE IF k % 3 = 2 THEN {"e1"} ELSE {"e1", "e2"})])
    \o <<Slot(5, Early, {})>>

SlotIds == <<"s1", "s2", "s3", "s4">>

\* The open shifts of a snapshot: MaxSlots slots s1, s2, ... in the order of
\* their ids, their contents not ascending along SlotContents: a list of
\* slots of two dates has the later date first, and slots that tie on
\* applicants, date and start are told apart by their ids.
OpenShiftLists ==
    {List([i \in 1..MaxSlots |-> [SlotContents[c[i]] EXCEPT !.slot_id = SlotIds[i]]]) :
        c \in {f \in [1..MaxSlots -> 1..Len(SlotContents)] :
                  \A i \in 1..(MaxSlots - 1) : f[i] >= f[i + 1]}}

\* Open shifts of six and of eight hours.
MixedSlotContents ==
    <<Slot(2, Short, {}), Slot(2, Late, {"e1"}), Slot(3, Short, {"e1"}),
      Slot(3, Late, {}), Slot(4, Early, {}), Slot(4, Short, {"e2"})>>

MixedShiftLists ==
    {List([i \in 1..MaxSlots |-> [MixedSlotContents[c[i]] EXCEPT !.slot_id = SlotIds[i]]]) :
        c \in {f \in [1..MaxSlots -> 1..Len(MixedSlotContents)] :
                  \A i \in 1..(MaxSlots - 1) : f[i] >= f[i + 1]}}

Shift(id, date, shape) ==
    [ordio_employee_id |-> id, date |-> date, start |-> shape.start, end |-> shape.end,
     hours |-> 0]

Absence(id, from, to) == [ordio_employee_id |-> id, start_date |-> from, end_date |-> to]

World(employees, employee_rules, assigned_shifts, absences, policy) ==
    [employees |-> employees, employee_rules |-> employee_rules,
     assigned_shifts |-> assigned_shifts, absences |-> absences, policy |-> policy]

Anna(id, employment, wage, max_salary, role, skills) ==
    Employee(id, "Anna Meier", "Anna", employment, wage, max_salary, role, skills)

Bert(id, employment, wage, max_salary, role, skills) ==
    Employee(id, "Bert Kurz", "Bert", employment, wage, max_salary, role, skills)

\* Two part-timers without rules.
WorldPlain ==
    World(<<Anna("e1", "Teilzeit", 0, 0, "Bar", {}), Bert("e2", "Teilzeit", 0, 0, "Koch", {"theke"})>>,
          <<>>, <<>>, <<>>, <<>>)

\* Shifts and an absence around the range, and at most two days in a row.
WorldBusy ==
    World(<<Anna("e1", "Teilzeit", 0, 0, "Bar", {}), Bert("e2", "Teilzeit", 0, 0, "Koch", {"theke"})>>,
          <<>>,
          <<Shift("e1", 1, Late), Shift("e2", 3, Night)>>,
          <<Absence("e2", 4, 5)>>,
          [max_consecutive_days |-> 2])

\* Equal employees whose names order against their ids; applicants not preferred.
WorldEqual ==
    World(<<Bert("e1", "Teilzeit", 0, 0, "Bar", {}), Anna("e2", "Teilzeit", 0, 0, "Bar", {})>>,
          <<>>, <<>>,
          <<Absence("e1", 1, 2)>>,
          [prefer_applicants |-> FALSE])

\* Two employees of one canonical name, who share the rule stored under it.
WorldNamesake ==
    World(<<Anna("e1", "Teilzeit", 0, 0, "Bar", {}),
            Employee("e2", "anna  meier", "", "Teilzeit", 0, 0, "Bar", {})>>,
          <<<<"anna  meier", Rule([max_weekly_hours |-> 8])>>>>,
          <<>>, <<>>, <<>>)

\* Salary caps without rules: the monthly cap derives from the salary.
WorldSalary ==
    World(<<Anna("e1", "Minijob", 10, 100, "Bar", {}), Bert("e2", "Teilzeit", 10, 85, "Koch", {})>>,
          <<>>,
          <<Shift("e2", 1, Early)>>,
          <<>>, <<>>)

\* A salary cap beside a monthly cap that a rule sets.
WorldSalaryRule ==
    World(<<Anna("e1", "Teilzeit", 10, 100, "Bar", {}), Bert("e2", "Werkstudent", 0, 0, "", {})>>,
          <<<<"Anna Meier", Rule([max_monthly_hours |-> 20])>>>>,
          <<Shift("e1", 1, Early)>>,
          <<>>, <<>>)

\* An employee who takes no additional shifts (the rule stored under the
\* first name) beside a working student with two shifts in the week.
WorldNoMore ==
    World(<<Bert("e1", "Teilzeit", 0, 0, "Bar", {}), Anna("e2", "Werkstudent", 0, 0, "Bar", {})>>,
          <<<<"Bert", Rule([no_additional_shifts |-> TRUE])>>>>,
          <<Shift("e2", 5, Early), Shift("e2", 6, Early)>>,
          <<>>, <<>>)

\* Preferences in the notes: a late riser without hour caps, an early bird.
WorldNotes ==
    World(<<Anna("e1", "Teilzeit", 0, 0, "", {}), Bert("e2", "Teilzeit", 0, 0, "Koch", {"theke"})>>,
          <<<<"Anna Meier", Rule([disable_max_hours |-> TRUE, notes |-> <<"ab", "10", "uhr">>])>>,
            <<"Bert Kurz", Rule([notes |-> <<"lieber", "früh">>,
                                 preferred_shift_types |-> {"Spaet"}])>>>>,
          <<>>, <<>>, <<>>)

\* Weekly target, weekend and shift-count notes, an additional-hours cap.
WorldTargets ==
    World(<<Anna("e1", "Teilzeit", 0, 0, "Bar", {}), Bert("e2", "Teilzeit", 0, 0, "Koch", {})>>,
          <<<<"Anna Meier", Rule([target_weekly_hours |-> 2,
                                  notes |-> <<"Kein", "Wochenende">>])>>,
            <<"Bert Kurz", Rule([max_additional_monthly_hours |-> 8,
                                 notes |-> <<"Max", "1", "Schichten">>])>>>>,
          <<>>, <<>>,
          [prefer_applicants |-> TRUE, max_consecutive_days |-> 2])

\* Values that do not parse as HH:MM: no colon, hour 24, minute 60, hour -1.
NoTimes == {<<>>, <<24, 0>>, <<9, 60>>, <<-1, 30>>}

\* The ends of the ranges given to time_overlap.
OverlapTimes ==
    {<<0, 0>>, <<2, 0>>, <<6, 0>>, <<9, 0>>, <<12, 0>>, <<13, 0>>, <<17, 0>>,
     <<22, 0>>, <<23, 0>>, <<23, 59>>, <<>>, <<24, 0>>}

\* The starts and ends given to calc_shift_hours.
ShiftTimes ==
    {<<h, m>> : h \in {0, 6, 9, 15, 22, 23}, m \in {0, 1, 30, 59}} \cup NoTimes

\* The longest list of hours given to _gini, and the most hours in it.
MaxValues == 4

MaxHours == 3

\* The most slots of the two plans of a comparison.
MaxCompareSlots == 16

CompareSlotIds ==
    <<"t01", "t02", "t03", "t04", "t05", "t06", "t07", "t08", "t09", "t10",
      "t11", "t12", "t13", "t14", "t15", "t16", "t17", "t18", "t19", "t20">>

CompareNames ==
    <<"n01", "n02", "n03", "n04", "n05", "n06", "n07", "n08", "n09", "n10",
      "n11", "n12", "n13", "n14", "n15", "n16", "n17", "n18", "n19", "n20">>

\* An assignment of a plan, with the fields compare.py reads.
Assigned(slot_id, who, score, hours) ==
    [slot_id |-> slot_id, ordio_employee_id |-> who, employee_name |-> who,
     score |-> score, hours |-> hours, date |-> 2, start |-> <<9, 0>>, end |-> <<15, 0>>,
     shift_type |-> "", assignment_kind |-> IF score >= 500 THEN "applicant"
                                            ELSE "recommendation_without_applicant"]

Unassigned(slot_id) == [slot_id |-> slot_id, reason |-> "all_candidates_blocked_by_constraints"]

\* How the two plans treat their i-th slot.  In a cycle the slots take the
\* five classes and a slot only plan A knows in turn; in a heavy pair the
\* first five slots take those and every later slot has two employees.
CompareCase(i, mix, shift) ==
    IF mix = "cycle" THEN (i + shift) % 6 ELSE IF i <= 5 THEN i + 1 ELSE 1

\* The i-th slot's records in plan A: 0 same employee, 1 different
\* employees, 2 and 5 only A assigns, 3 only B assigns, 4 nobody assigns.
SideA(i, mix, shift, mult) ==
    LET c == CompareCase(i, mix, shift)
        score == ((i * mult * 7) % 11) * 100
    IN  [assignments |-> IF c \in {0, 1, 2, 5}
                         THEN <<Assigned(CompareSlotIds[i], CompareNames[i], score, 800)>>
                         ELSE <<>>,
         unassigned |-> IF c \in {3, 4} THEN <<Unassigned(CompareSlotIds[i])>> ELSE <<>>]

SideB(i, mix, shift, mult) ==
    LET c == CompareCase(i, mix, shift)
        score == ((i * 3 + shift) % 13) * 50
        hours == 600 + 100 * ((i + shift) % 3)
    IN  [assignments |-> IF c = 0
                         THEN <<Assigned(CompareSlotIds[i], CompareNames[i], score, hours)>>
                         ELSE IF c \in {1, 3}
                         THEN <<Assigned(CompareSlotIds[i], CompareNames[i + 1], score, hours)>>
                         ELSE <<>>,
         unassigned |-> IF c \in {2, 4} THEN <<Unassigned(CompareSlotIds[i])>> ELSE <<>>]

\* A plan of the records of n slots.  An odd plan has, besides, records
\* without a slot id, a slot both assigned and unassigned, two assignments of
\* one slot, an assignment without a name, and no metrics.
ComparePlan(sides, plan_id, odd) ==
    LET assignments == Flatten([i \in 1..Len(sides) |-> sides[i].assignments])
        unassigned == Flatten([i \in 1..Len(sides) |-> sides[i].unassigned])
        more == <<Assigned("", "n20", 900, 800),
                  [Assigned("t20", "n19", 300, 600) EXCEPT !.employee_name = ""],
                  Assigned("t20", "n20", 700, 800)>>
        total == Len(assignments) + Len(unassigned)
    IN  IF odd
        THEN [plan_id |-> plan_id, profile |-> "default",
              assignments |-> more \o assignments,
              unassigned |-> unassigned \o <<Unassigned(""), Unassigned("t20")>>]
        ELSE [plan_id |-> plan_id, profile |-> "default",
              assignments |-> assignments, unassigned |-> unassigned,
              metrics |-> [total_slots |-> total,
                           fill_rate |-> IF total # 0
                                         THEN RoundHalfEven(Len(assignments) * 1000, total)
                                         ELSE 0]]

\* Notes that ask for weekends only, and for an end by 20:00.
WorldWeekend ==
    World(<<Anna("e1", "Teilzeit", 0, 0, "Bar", {}), Bert("e2", "Teilzeit", 0, 0, "Koch", {})>>,
          <<<<"Anna Meier", Rule([notes |-> <<"Nur", "Wochenende">>])>>,
            <<"Bert Kurz", Rule([notes |-> <<"bis", "20", "uhr">>])>>>>,
          <<>>, <<>>, <<>>)

\* Monthly maxima of 16 and of 8 hours; a shift of the month before the range.
WorldCapped ==
    World(<<Anna("e1", "Teilzeit", 0, 0, "Bar", {}), Bert("e2", "Teilzeit", 0, 0, "Koch", {})>>,
          <<<<"Anna Meier", Rule([max_monthly_hours |-> 16])>>,
            <<"Bert Kurz", Rule([max_monthly_hours |-> 8])>>>>,
          <<Shift("e1", -5, Early)>>, <<>>, <<>>)

\* A working student with a shift later in the week of the range's last two
\* days, and a weekly maximum of 16 hours.
WorldWerk ==
    World(<<Anna("e1", "Werkstudent", 0, 0, "Bar", {}), Bert("e2", "Teilzeit", 0, 0, "Koch", {})>>,
          <<<<"Bert Kurz", Rule([max_weekly_hours |-> 16])>>>>,
          <<Shift("e1", 6, Early), Shift("e2", 8, Late)>>, <<>>, <<>>)

\* At most two days in a row; one employee worked the day before the range,
\* the other is away on its first day.
WorldStreak ==
    World(<<Anna("e1", "Teilzeit", 0, 0, "Bar", {}), Bert("e2", "Teilzeit", 0, 0, "Koch", {})>>,
          <<>>,
          <<Shift("e1", 1, Late)>>,
          <<Absence("e2", 2, 2)>>,
          [max_consecutive_days |-> 2])

\* A night shift on the first day of the range that ends on the morning of
\* the second, on which the other employee is away.
WorldNight ==
    World(<<Anna("e1", "Teilzeit", 0, 0, "Bar", {}), Bert("e2", "Teilzeit", 0, 0, "Koch", {})>>,
          <<>>,
          <<Shift("e1", 2, Night)>>,
          <<Absence("e2", 3, 3)>>,
          <<>>)

\* A note that asks for one shift a week at most; the other employee is away
\* on the Monday and the Tuesday of the range.
WorldOneShift ==
    World(<<Anna("e1", "Teilzeit", 0, 0, "Bar", {}), Bert("e2", "Teilzeit", 0, 0, "Koch", {})>>,
          <<<<"Anna Meier", Rule([notes |-> <<"Max", "1", "Schichten">>])>>>>,
          <<>>,
          <<Absence("e2", 3, 4)>>,
          <<>>)

\* A weekly target of 20 hours; a monthly maximum; nothing.
WorldTwenty ==
    World(<<Anna("e1", "Teilzeit", 0, 0, "Bar", {}), Bert("e2", "Teilzeit", 0, 0, "Koch", {}),
            Employee("e3", "Cora Lang", "Cora", "Teilzeit", 0, 0, "Bar", {})>>,
          <<<<"Anna Meier", Rule([target_weekly_hours |-> 20])>>,
            <<"Bert Kurz", Rule([max_monthly_hours |-> 40])>>>>,
          <<>>, <<Absence("e3", 2, 3)>>, <<>>)

\* Three late shifts on past Sundays: a fixed pattern.
WorldHistory ==
    World(<<Anna("e1", "Teilzeit", 0, 0, "Koch", {}), Bert("e2", "Teilzeit", 0, 0, "Koch", {})>>,
          <<>>,
          <<Shift("e1", -19, Late), Shift("e1", -12, Late), Shift("e1", -5, Late)>>,
          <<>>, <<>>)

\* One employee, absent throughout.
WorldAbsent ==
    World(<<Bert("e2", "Teilzeit", 0, 0, "Koch", {})>>,
          <<>>, <<>>,
          <<Absence("e2", 2, 4)>>,
          <<>>)

\* A mini-jobber with 40 hours in November.
WorldMini ==
    World(<<Anna("e1", "Minijob", 10, 100, "Bar", {}), Bert("e2", "Teilzeit", 0, 0, "Koch", {})>>,
          <<>>,
          <<Shift("e1", -20, Early), Shift("e1", -17, Early), Shift("e1", -14, Early),
            Shift("e1", -11, Early), Shift("e1", -8, Early)>>,
          <<>>, <<>>)

\* Nine employees, all absent on the first day of the range.
WorldCrowd ==
    World(<<Anna("e1", "Teilzeit", 0, 0, "Bar", {}),
            Bert("e2", "Teilzeit", 0, 0, "Koch", {"theke"}),
            Employee("e3", "Cora Lang", "Cora", "Teilzeit", 0, 0, "Bar", {}),
            Employee("e4", "Dirk Moll", "Dirk", "Werkstudent", 0, 0, "", {"theke"}),
            Employee("e5", "Eva Nagel", "Eva", "Minijob", 0, 0, "Koch", {}),
            Employee("e6", "Finn Ott", "Finn", "Teilzeit", 0, 0, "", {}),
            Employee("e7", "Gerd Pohl", "Gerd", "Teilzeit", 0, 0, "Bar", {"theke"}),
            Employee("e8", "Hanna Rau", "Hanna", "Teilzeit", 0, 0, "Koch", {}),
            Employee("e9", "Ida Sorg", "Ida", "Teilzeit", 0, 0, "", {})>>,
          <<>>,
          <<Shift("e4", 3, Late), Shift("e6", 3, Early)>>,
          <<Absence("e1", 2, 2), Absence("e2", 2, 2), Absence("e3", 2, 4),
            Absence("e4", 2, 2), Absence("e5", 2, 2), Absence("e6", 2, 2),
            Absence("e7", 1, 2), Absence("e8", 2, 2), Absence("e9", 2, 2)>>,
          <<>>)

\* Nobody.
WorldEmpty == World(<<>>, <<>>, <<>>, <<>>, <<>>)

Worlds ==
    {WorldPlain, WorldBusy, WorldEqual, WorldNamesake, WorldSalary, WorldSalaryRule,
     WorldNoMore, WorldNotes, WorldTargets, WorldHistory, WorldAbsent, WorldEmpty}

\* The worlds of a repeated call.
RepeatedWorlds == {WorldBusy, WorldSalary, WorldTargets}

InitWith(worlds, lists) ==
    /\ \E world \in worlds, shifts \in lists :
          /\ snapshot = [employees |-> world.employees, open_shifts |-> shifts,
                         assigned_shifts |-> world.assigned_shifts,
                         absences |-> world.absences]
          /\ profile = [policy |-> world.policy, employee_rules |-> world.employee_rules]
    /\ range_from = 2
    /\ range_to = 4
    /\ constraint_mode \in {"strict", "loose"}
    /\ hash_seed = 0
    /\ pc = "call"
    /\ call = 1
    /\ open_slots = <<>>
    /\ idx = 1
    /\ state = _initial_state
    /\ evaluation_matrix = <<>>
    /\ plan = NoPlan
    /\ first_plan = NoPlan
    /\ call_args = <<>>
    /\ returned = <<>>

InitOf(worlds) == InitWith(worlds, OpenShiftLists)

Init == InitOf(Worlds)

Next == Prepare \/ ProcessSlot \/ Finish

Spec == Init /\ [][Next]_vars

\* The worlds of the salary guard.
SalaryWorlds == {WorldSalary, WorldSalaryRule, WorldMini}

InitSalary == InitOf(SalaryWorlds)

SpecSalary == InitSalary /\ [][Next]_vars

\* No run of generate_plan: a function is called on its own.
Idle ==
    /\ snapshot = [employees |-> <<>>, open_shifts |-> <<>>, assigned_shifts |-> <<>>,
                   absences |-> <<>>]
    /\ profile = [policy |-> <<>>, employee_rules |-> <<>>]
    /\ range_from = 2
    /\ range_to = 4
    /\ constraint_mode = "strict"
    /\ hash_seed = 0
    /\ call = 1
    /\ open_slots = <<>>
    /\ idx = 1
    /\ state = _initial_state
    /\ evaluation_matrix = <<>>

\* The worlds of the records: many candidates, or none.
CrowdWorlds == {WorldCrowd, WorldBusy, WorldAbsent, WorldEmpty}

InitCrowd == InitOf(CrowdWorlds)

SpecCrowd == InitCrowd /\ [][Next]_vars

\* The worlds of the fairness overview, with shifts of six and eight hours.
FairnessWorlds == {WorldTwenty, WorldTargets, WorldSalaryRule, WorldPlain}

InitFairness == InitWith(FairnessWorlds, MixedShiftLists)

SpecFairness == InitFairness /\ [][Next]_vars

\* Two plans are given to compare_plans_impl.
InitCompare ==
    /\ Idle
    /\ pc = "compare"
    /\ call_args = <<>>
    /\ returned = <<>>
    /\ \E n \in 0..MaxCompareSlots, mix \in {"cycle", "heavy"}, shift \in 0..5,
          mult \in 1..3, odd_a \in BOOLEAN, odd_b \in BOOLEAN :
          /\ first_plan = ComparePlan([i \in 1..n |-> SideA(i, mix, shift, mult)], "plan-a", odd_a)
          /\ plan = ComparePlan([i \in 1..n |-> SideB(i, mix, shift, mult)], "plan-b", odd_b)

SpecCompare == InitCompare /\ [][Compare]_vars

\* A list of non-negative hours is given to _gini.
InitGini ==
    /\ Idle
    /\ pc = "gini"
    /\ plan = NoPlan
    /\ first_plan = NoPlan
    /\ returned = <<>>
    /\ \E n \in 0..MaxValues : \E values \in [1..n -> 0..MaxHours] : call_args = <<values>>

SpecGini == InitGini /\ [][Gini]_vars

\* Two ranges are given to time_overlap, or a start and an end to
\* calc_shift_hours.
InitTimes ==
    /\ Idle
    /\ plan = NoPlan
    /\ first_plan = NoPlan
    /\ returned = <<>>
    /\ \/ /\ pc = "time_overlap"
          /\ \E a0 \in OverlapTimes, a1 \in OverlapTimes, b0 \in OverlapTimes, b1 \in OverlapTimes :
                call_args = <<a0, a1, b0, b1>>
       \/ /\ pc = "calc_shift_hours"
          /\ \E start \in ShiftTimes, end \in ShiftTimes : call_args = <<start, end>>

NextTimes == TimeOverlap \/ CalcShiftHours

SpecTimes == InitTimes /\ [][NextTimes]_vars

\* The worlds with limits of hours, of salary and of the labor law, and with
\* preferences.
ModeWorlds ==
    {WorldBusy, WorldSalary, WorldSalaryRule, WorldTargets, WorldNotes, WorldNamesake,
     WorldWeekend}

InitModes == InitOf(ModeWorlds)

SpecModes == InitModes /\ [][Next]_vars

\* The worlds with monthly caps: of rules, of targets, of salaries.
CapWorlds == {WorldCapped, WorldSalaryRule, WorldTargets, WorldSalary}

InitCaps == InitOf(CapWorlds)

SpecCaps == InitCaps /\ [][Next]_vars

\* The worlds with weekly caps, of rules and of the employment, and with
\* limits on the days in a row.
WeekWorlds == {WorldWerk, WorldNamesake, WorldNoMore, WorldBusy, WorldStreak}

InitWeeks == InitOf(WeekWorlds)

SpecWeeks == InitWeeks /\ [][Next]_vars

NextExplain == Prepare \/ ProcessSlot \/ Finish \/ Explain

SpecExplain == InitCrowd /\ [][NextExplain]_vars

InitRepeated == InitOf(RepeatedWorlds)

NextRepeated == Prepare \/ ProcessSlot \/ Finish \/ Rerun

SpecRepeated == InitRepeated /\ [][NextRepeated]_vars

\* The worlds with shifts over midnight.
NightWorlds == {WorldNight, WorldBusy}

InitNights == InitOf(NightWorlds)

SpecNights == InitNights /\ [][Next]_vars

\* The worlds with notes on the number of shifts a week.
ShiftLimitWorlds == {WorldOneShift, WorldTargets}

InitShiftLimits == InitOf(ShiftLimitWorlds)

SpecShiftLimits == InitShiftLimits /\ [][Next]_vars

\* The plan of a run is validated against the run's snapshot and profile.
ValidatedWorlds == WeekWorlds \cup SalaryWorlds

InitValidated == InitOf(ValidatedWorlds)

NextValidated == Prepare \/ ProcessSlot \/ Finish \/ Validate

SpecValidated == InitValidated /\ [][NextValidated]_vars

\* Plans that no run made: up to MaxAudited assignments of early, late and
\* short shifts on the days 2..4 to the two employees of the snapshot or to a
\* stranger, with their hours recorded or not.
MaxAudited == 2

AuditedEmployees == {"e1", "e2", "e9"}

AuditedShapes == {Early, Late, Short}

AuditedAssignment(slot_id, emp_id, date, shape, recorded) ==
    [slot_id |-> slot_id, ordio_employee_id |-> emp_id, employee_name |-> emp_id,
     date |-> date, start |-> shape.start, end |-> shape.end,
     hours |-> IF recorded THEN RoundHalfEven(calc_shift_hours(shape.start, shape.end) * 100, 60)
               ELSE 0]

AuditedWorlds == {WorldBusy, WorldNoMore, WorldSalary, WorldPlain}

InitAudit ==
    /\ \E world \in AuditedWorlds :
          /\ snapshot = [employees |-> world.employees, open_shifts |-> <<>>,
                         assigned_shifts |-> world.assigned_shifts,
                         absences |-> world.absences]
          /\ profile = [policy |-> world.policy, employee_rules |-> world.employee_rules]
    /\ range_from = 2
    /\ range_to = 4
    /\ constraint_mode = "strict"
    /\ hash_seed = 0
    /\ pc = "done"
    /\ call = 1
    /\ open_slots = <<>>
    /\ idx = 1
    /\ state = _initial_state
    /\ evaluation_matrix = <<>>
    /\ first_plan = NoPlan
    /\ call_args = <<>>
    /\ returned = <<>>
    /\ \E n \in 0..MaxAudited, recorded \in BOOLEAN :
          \E emp_of \in [1..n -> AuditedEmployees], date_of \in [1..n -> 2..4],
             shape_of \in [1..n -> AuditedShapes] :
              plan = [assignments |->
                         List([i \in 1..n |-> AuditedAssignment(SlotIds[i], emp_of[i], date_of[i],
                                                                shape_of[i], recorded)])]

SpecAudit == InitAudit /\ [][Validate]_vars

(***************************************************************************)
(* Properties of the plan                                                  *)
(***************************************************************************)

\* The open shifts of the snapshot whose date lies in the requested range.
InRangeShifts ==
    {i \in 1..Len(snapshot.open_shifts) :
        range_from <= snapshot.open_shifts[i].date /\ snapshot.open_shifts[i].date <= range_to}

\* C1: the returned plan holds every open shift of the range once: its
\* assignments and its unassigned slots together are as many as the open
\* shifts of the range, their slot ids are those shifts' ids, and the metrics
\* count the same.
Coverage ==
    pc = "done" =>
        /\ Len(plan.assignments) + Len(plan.unassigned) = Cardinality(InRangeShifts)
        /\ {plan.assignments[i].slot_id : i \in 1..Len(plan.assignments)}
              \cup {plan.unassigned[i].slot_id : i \in 1..Len(plan.unassigned)}
           = {snapshot.open_shifts[i].slot_id : i \in InRangeShifts}
        /\ plan.metrics.assigned_slots + plan.metrics.unassigned_slots
           = plan.metrics.total_slots
        /\ plan.metrics.total_slots = Cardinality(InRangeShifts)

\* A plan with an assignment, of a snapshot that has an open shift outside
\* the range.
CoverageWitness ==
    /\ pc = "done"
    /\ plan.assignments # <<>>
    /\ Cardinality(InRangeShifts) < Len(snapshot.open_shifts)

\* C2: in the returned plan no employee has two assignments on one date, and
\* none has an assignment on a date of one of the snapshot's shifts of that
\* employee.
NoDoubleBooking ==
    pc = "done" =>
        \A i \in 1..Len(plan.assignments) :
            /\ \A j \in 1..Len(plan.assignments) :
                  (i # j /\ plan.assignments[i].ordio_employee_id
                               = plan.assignments[j].ordio_employee_id)
                      => plan.assignments[i].date # plan.assignments[j].date
            /\ \A k \in 1..Len(snapshot.assigned_shifts) :
                  snapshot.assigned_shifts[k].ordio_employee_id
                        = plan.assignments[i].ordio_employee_id
                      => snapshot.assigned_shifts[k].date # plan.assignments[i].date

\* A plan of two open shifts of one date, the first assigned to an employee
\* who applied for both, while another employee has a shift of the snapshot
\* on that date.
NoDoubleBookingWitness ==
    /\ pc = "done"
    /\ Len(open_slots) = 2
    /\ open_slots[1].date = open_slots[2].date
    /\ Len(plan.assignments) >= 1
    /\ plan.assignments[1].ordio_employee_id \in
          open_slots[1].applicant_employee_ids \cap open_slots[2].applicant_employee_ids
    /\ \E k \in 1..Len(snapshot.assigned_shifts) :
          /\ snapshot.assigned_shifts[k].date = open_slots[1].date
          /\ snapshot.assigned_shifts[k].ordio_employee_id
                # plan.assignments[1].ordio_employee_id

\* C3: every assignment of the returned plan has no blocked reason, and no
\* evaluation for its slot that has an obligatory reason is of its employee.
HardBlockSoundness ==
    pc = "done" =>
        \A i \in 1..Len(plan.assignments) :
            /\ plan.assignments[i].blocked_reasons = <<>>
            /\ \A row \in Range(plan.evaluation_matrix[plan.assignments[i].slot_id]) :
                  Range(row.blocked_reasons) \cap OBLIGATORY_BLOCK_REASONS # {}
                      => row.employee_id # plan.assignments[i].ordio_employee_id

\* A slot assigned to a non-applicant whose applicant has an obligatory reason.
HardBlockSoundnessWitness ==
    /\ pc = "done"
    /\ \E i \in 1..Len(plan.assignments) :
          /\ ~plan.assignments[i].is_applicant
          /\ \E row \in Range(plan.evaluation_matrix[plan.assignments[i].slot_id]) :
                /\ row.is_applicant
                /\ Range(row.blocked_reasons) \cap OBLIGATORY_BLOCK_REASONS # {}

(***************************************************************************)
(* Properties of repeated calls                                            *)
(***************************************************************************)

\* C4: a second call on the inputs of the first returns the assignments of
\* the first, in their order, with their employees, scores, score details and
\* reason lists, and the unassigned slots of the first.
Determinism ==
    (pc = "done" /\ call = 2) =>
        /\ plan.assignments = first_plan.assignments
        /\ plan.unassigned = first_plan.unassigned

\* A second call under another hash seed, that returns an assignment whose
\* alternative has two blocked reasons.
DeterminismWitness ==
    /\ pc = "done"
    /\ call = 2
    /\ hash_seed = 1
    /\ \E i \in 1..Len(plan.assignments) :
          \E alt \in Range(plan.assignments[i].alternatives) :
             Len(alt.blocked_reasons) >= 2

\* C5 as stated: a second call on the inputs of the first returns a plan
\* equal to the first in every field.
ByteIdentical == (pc = "done" /\ call = 2) => plan = first_plan

\* C5, amended: a second call on the inputs of the first returns a plan equal
\* to the first in every field but plan_id and generated_at.
IdenticalButIdentification ==
    (pc = "done" /\ call = 2) =>
        [plan EXCEPT !.plan_id = first_plan.plan_id,
                     !.generated_at = first_plan.generated_at] = first_plan

\* A second call under another hash seed that draws another plan id at a
\* later time, and returns an assignment and an unassigned slot.
IdenticalButIdentificationWitness ==
    /\ pc = "done"
    /\ call = 2
    /\ hash_seed = 1
    /\ plan.plan_id # first_plan.plan_id
    /\ plan.generated_at # first_plan.generated_at
    /\ plan.assignments # <<>>
    /\ plan.unassigned # <<>>

(***************************************************************************)
(* Properties of the evaluations                                           *)
(***************************************************************************)

\* policy.get("prefer_applicants", True)
PrefersApplicants == Get(profile.policy, "prefer_applicants", TRUE)

\* The assignments of the returned plan for slot_id.
AssignmentsOf(slot_id) ==
    {a \in Range(plan.assignments) : a.slot_id = slot_id}

\* C6: of a slot with applicants, under a policy that prefers applicants,
\* with an applicant whose evaluation is not blocked, the assignee is an
\* applicant who is not blocked, of kind applicant and applicant score 80;
\* and where a slot with applicants has an assignee who did not apply, the
\* policy does not prefer applicants or every applicant is blocked.
ApplicantPreference ==
    pc = "done" =>
        \A k \in 1..Len(open_slots) :
            \A slot \in {open_slots[k]} :
                \A rows \in {plan.evaluation_matrix[slot.slot_id]} :
                    /\ (/\ slot.applicant_employee_ids # {}
                        /\ PrefersApplicants
                        /\ \E row \in Range(rows) : row.is_applicant /\ ~row.blocked)
                       => \E a \in AssignmentsOf(slot.slot_id) :
                             /\ a.ordio_employee_id \in slot.applicant_employee_ids
                             /\ a.is_applicant
                             /\ a.blocked_reasons = <<>>
                             /\ a.assignment_kind = "applicant"
                             /\ a.score_detail.applicant = 8000
                    /\ \A a \in AssignmentsOf(slot.slot_id) :
                          (/\ slot.applicant_employee_ids # {}
                           /\ a.ordio_employee_id \notin slot.applicant_employee_ids)
                          => \/ ~PrefersApplicants
                             \/ \A row \in Range(rows) : row.is_applicant => row.blocked

\* An applicant is the assignee although an employee who did not apply has
\* an evaluation that is not blocked and scores higher.
ApplicantPreferenceWitness ==
    /\ pc = "done"
    /\ PrefersApplicants
    /\ \E a \in Range(plan.assignments) :
          /\ a.is_applicant
          /\ \E row \in Range(plan.evaluation_matrix[a.slot_id]) :
                ~row.is_applicant /\ ~row.blocked /\ row.score > a.score

\* The employees whose rule says no_additional_shifts.
TakesNoMore ==
    {e \in Range(snapshot.employees) :
        _employee_rule(e, _normalize_rule_lookup(profile)).no_additional_shifts}

\* C7: an employee whose rule says no_additional_shifts has no assignment
\* in the returned plan, and every evaluation of that employee is blocked
\* with no_additional_shifts among its reasons.
NoAdditionalShifts ==
    pc = "done" =>
        \A e \in TakesNoMore :
            /\ \A a \in Range(plan.assignments) :
                  a.ordio_employee_id # e.ordio_employee_id
            /\ \A k \in 1..Len(open_slots) :
                  \E row \in Range(plan.evaluation_matrix[open_slots[k].slot_id]) :
                     /\ row.employee_id = e.ordio_employee_id
                     /\ row.blocked
                     /\ "no_additional_shifts" \in Range(row.blocked_reasons)

\* In loose mode, an employee whose rule says no_additional_shifts applied
\* for a slot of the range that another employee got.
NoAdditionalShiftsWitness ==
    /\ pc = "done"
    /\ constraint_mode = "loose"
    /\ \E e \in TakesNoMore :
          \E a \in Range(plan.assignments) :
             \E k \in 1..Len(open_slots) :
                /\ open_slots[k].slot_id = a.slot_id
                /\ e.ordio_employee_id \in open_slots[k].applicant_employee_ids

\* C8: an employee has no assignment on a date within one of the employee's
\* absences, first and last day included, and the employee's evaluation for
\* every slot of such a date is blocked with absence among its reasons.
AbsenceBlocks ==
    pc = "done" =>
        \A ab \in Range(snapshot.absences) :
            \A k \in 1..Len(open_slots) :
                (ab.start_date <= open_slots[k].date /\ open_slots[k].date <= ab.end_date)
                => /\ \A a \in AssignmentsOf(open_slots[k].slot_id) :
                         a.ordio_employee_id # ab.ordio_employee_id
                   /\ \A row \in Range(plan.evaluation_matrix[open_slots[k].slot_id]) :
                         row.employee_id = ab.ordio_employee_id
                         => row.blocked /\ "absence" \in Range(row.blocked_reasons)

\* In loose mode, an employee applied for a slot on the last day of an
\* absence of more than a day, and the evaluation has no other reason.
AbsenceBlocksWitness ==
    /\ pc = "done"
    /\ constraint_mode = "loose"
    /\ \E ab \in Range(snapshot.absences) :
          \E k \in 1..Len(open_slots) :
             /\ ab.start_date < ab.end_date
             /\ open_slots[k].date = ab.end_date
             /\ ab.ordio_employee_id \in open_slots[k].applicant_employee_ids
             /\ \E row \in Range(plan.evaluation_matrix[open_slots[k].slot_id]) :
                   /\ row.employee_id = ab.ordio_employee_id
                   /\ row.blocked_reasons = <<"absence">>

\* A time of day in minutes.
Minutes(t) == t[1] * 60 + t[2]

\* The shifts an employee has when the k-th slot is evaluated: the
\* snapshot's, and the slots before the k-th that the plan assigns.
PriorShifts(emp_id, k) ==
    {[date |-> s.date, start |-> s.start, end |-> s.end] :
        s \in {x \in Range(snapshot.assigned_shifts) : x.ordio_employee_id = emp_id}}
    \cup {[date |-> open_slots[j].date, start |-> open_slots[j].start,
           end |-> open_slots[j].end] :
            j \in {i \in 1..(k - 1) :
                     \E a \in AssignmentsOf(open_slots[i].slot_id) :
                        a.ordio_employee_id = emp_id}}

\* Less than 11 hours lie between a shift s of the day before the slot and
\* the slot, or between the slot and a shift s of the day after.
RestTooShort(s, slot) ==
    \/ /\ s.date = slot.date - 1
       /\ (24 * 60 - Minutes(s.end)) + Minutes(slot.start) < 11 * 60
    \/ /\ s.date = slot.date + 1
       /\ (24 * 60 - Minutes(slot.end)) + Minutes(s.start) < 11 * 60

\* C9: where a shift the employee already has, from the snapshot or from
\* earlier in the run, lies on the day before or after the slot with less
\* than 11 hours between them over midnight, the evaluation is blocked with
\* rest_lt_11h, in strict and in loose mode.
RestBlocks ==
    pc = "done" =>
        \A k \in 1..Len(open_slots) :
            \A row \in Range(plan.evaluation_matrix[open_slots[k].slot_id]) :
                (\E s \in PriorShifts(row.employee_id, k) : RestTooShort(s, open_slots[k]))
                => row.blocked /\ "rest_lt_11h" \in Range(row.blocked_reasons)

\* In loose mode, an employee got a slot that ends at 23:00 earlier in the
\* run and is evaluated for a slot that starts at 06:00 on the next day.
RestBlocksWitness ==
    /\ pc = "done"
    /\ constraint_mode = "loose"
    /\ Len(open_slots) = 2
    /\ open_slots[1].date + 1 = open_slots[2].date
    /\ open_slots[1].end = <<23, 0>>
    /\ open_slots[2].start = <<6, 0>>
    /\ \E a \in AssignmentsOf(open_slots[1].slot_id) :
          \E row \in Range(plan.evaluation_matrix[open_slots[2].slot_id]) :
             /\ row.employee_id = a.ordio_employee_id
             /\ row.blocked_reasons = <<"rest_lt_11h">>

(***************************************************************************)
(* Properties of the salary guard                                          *)
(***************************************************************************)

\* The employee with another max_salary.
Raised(emp, max_salary) == [emp EXCEPT !.max_salary = max_salary]

\* Salaries above the projected cost of evaluation e: by less than 1, by 500.
RaisedSalaries(e) == {(e.projected_salary \div 100) + 1, (e.projected_salary \div 100) + 500}

\* The list without the reason.
Without(list, reason) == SelectSeq(list, LAMBDA r : r # reason)

\* The monthly cap of the employee comes from max_salary / hourly_wage: no
\* rule sets it, and the employee is no working student.
CapFromSalary(emp) ==
    /\ \A rule \in {_employee_rule(emp, _normalize_rule_lookup(profile))} :
          /\ ~rule.disable_max_hours
          /\ rule.max_monthly_hours = None
          /\ rule.target_weekly_hours = None
    /\ \/ Contains(canonical_name(emp.employment), "mini")
       \/ ~Contains(canonical_name(emp.employment), "werk")

\* C10 as stated: the evaluation of an employee, slot and run state that is
\* blocked with max_salary_limit, made again with max_salary above the
\* projected cost, has the same blocked reasons but max_salary_limit, and
\* the same soft violations.
SalaryGuardFrame ==
    (pc = "loop" /\ idx <= Len(open_slots)) =>
        \A emp \in Range(snapshot.employees) :
            \A e \in {EvaluateEmployee(emp, open_slots[idx], state)} :
                "max_salary_limit" \in Range(e.blocked_reasons) =>
                    \A m \in RaisedSalaries(e) :
                        \A r \in {EvaluateEmployee(Raised(emp, m), open_slots[idx], state)} :
                            /\ r.blocked_reasons = Without(e.blocked_reasons, "max_salary_limit")
                            /\ r.soft_violations = e.soft_violations

\* C10, amended: made again with max_salary above the projected cost, the
\* evaluation has the same blocked reasons but max_salary_limit and the same
\* soft violations, except that monthly_hours_limit may be gone from either
\* where the monthly cap comes from max_salary / hourly_wage.
SalaryGuardFrameButMonthlyCap ==
    (pc = "loop" /\ idx <= Len(open_slots)) =>
        \A emp \in Range(snapshot.employees) :
            \A e \in {EvaluateEmployee(emp, open_slots[idx], state)} :
                "max_salary_limit" \in Range(e.blocked_reasons) =>
                    \A m \in RaisedSalaries(e) :
                        \A r \in {EvaluateEmployee(Raised(emp, m), open_slots[idx], state)} :
                            \A kept \in {Without(e.blocked_reasons, "max_salary_limit")} :
                                /\ \/ r.blocked_reasons = kept
                                   \/ /\ CapFromSalary(emp)
                                      /\ r.blocked_reasons = Without(kept, "monthly_hours_limit")
                                /\ \/ r.soft_violations = e.soft_violations
                                   \/ /\ CapFromSalary(emp)
                                      /\ r.soft_violations
                                            = Without(e.soft_violations, "monthly_hours_limit")

\* In strict mode, an evaluation blocked with max_salary_limit,
\* monthly_hours_limit and a third reason keeps the third alone under a
\* raised max_salary.
SalaryGuardFrameButMonthlyCapWitness ==
    /\ pc = "loop"
    /\ idx <= Len(open_slots)
    /\ constraint_mode = "strict"
    /\ \E emp \in Range(snapshot.employees) :
          \E e \in {EvaluateEmployee(emp, open_slots[idx], state)} :
             /\ "max_salary_limit" \in Range(e.blocked_reasons)
             /\ "monthly_hours_limit" \in Range(e.blocked_reasons)
             /\ Len(e.blocked_reasons) = 3
             /\ \E m \in RaisedSalaries(e) :
                   Len(EvaluateEmployee(Raised(emp, m), open_slots[idx], state).blocked_reasons) = 1

(***************************************************************************)
(* Properties of the records                                               *)
(***************************************************************************)

\* The slot of the run that has the id.
SlotOf(slot_id) == CHOOSE slot \in Range(open_slots) : slot.slot_id = slot_id

\* The first n elements of a list.
FirstN(list, n) == SubSeq(list, 1, IF Len(list) < n THEN Len(list) ELSE n)

\* What top_candidates tells of an evaluation.
CandidateOf(row) ==
    [ordio_employee_id |-> row.employee_id, employee_name |-> row.employee_name,
     blocked_reasons |-> row.blocked_reasons, score |-> row.score,
     is_applicant |-> row.is_applicant]

\* top_candidates are the first five evaluations of the slot, in their order.
TopCandidatesAreFirstFive(u) ==
    \A rows \in {FirstN(plan.evaluation_matrix[u.slot_id], 5)} :
        /\ Len(u.top_candidates) = Len(rows)
        /\ \A i \in 1..Len(rows) : u.top_candidates[i] = CandidateOf(rows[i])

\* C11 as stated: the code of each situation is produced in that situation.
\* A slot nobody was evaluated for is unassigned with
\* no_candidates_available; else a slot whose evaluations are all blocked is
\* unassigned with all_candidates_blocked_by_constraints; else a slot with
\* applicants who are all blocked is unassigned with all_applicants_blocked;
\* and top_candidates are the first five evaluations.
ReasonCodePerSituation ==
    pc = "done" =>
        \A slot \in Range(open_slots) :
            \A rows \in {plan.evaluation_matrix[slot.slot_id]} :
                \A code \in {IF rows = <<>> THEN "no_candidates_available"
                              ELSE IF \A row \in Range(rows) : row.blocked
                                   THEN "all_candidates_blocked_by_constraints"
                              ELSE IF /\ slot.applicant_employee_ids # {}
                                      /\ \A row \in Range(rows) : row.is_applicant => row.blocked
                                   THEN "all_applicants_blocked"
                              ELSE ""} :
                    code # "" =>
                        \E u \in Range(plan.unassigned) :
                            /\ u.slot_id = slot.slot_id
                            /\ u.reason = code
                            /\ TopCandidatesAreFirstFive(u)

\* C11, amended: an unassigned record has the reason no_candidates_available
\* when no employee was evaluated for its slot, and else
\* all_candidates_blocked_by_constraints, every evaluation being blocked
\* then; no record has all_applicants_blocked or no_valid_candidate; and
\* top_candidates are the first five evaluations of the slot in their order.
ReasonCodeOfUnassigned ==
    pc = "done" =>
        \A u \in Range(plan.unassigned) :
            \A rows \in {plan.evaluation_matrix[u.slot_id]} :
                /\ rows = <<>> => u.reason = "no_candidates_available"
                /\ rows # <<>> =>
                      /\ \A row \in Range(rows) : row.blocked
                      /\ u.reason = "all_candidates_blocked_by_constraints"
                /\ TopCandidatesAreFirstFive(u)

\* An unassigned slot with applicants and more than five evaluations, all
\* blocked.
ReasonCodeOfUnassignedWitness ==
    /\ pc = "done"
    /\ \E u \in Range(plan.unassigned) :
          /\ SlotOf(u.slot_id).applicant_employee_ids # {}
          /\ Len(plan.evaluation_matrix[u.slot_id]) > 5
          /\ Len(u.top_candidates) = 5
          /\ u.reason = "all_candidates_blocked_by_constraints"

\* C12: explain_assignment raises KeyError exactly when no assignment of the
\* plan has the id, and else returns the whole record of the assignment with
\* that id: its employee, its slot fields, its score, reasons and score
\* detail, and the first five of its alternatives (all of them when there are
\* fewer); the plan it was given is the plan generate_plan built, unchanged.
ExplainsAssignment ==
    call_args # <<>> =>
        /\ plan = call_args[1]
        /\ plan = BuildPlan(state, evaluation_matrix, plan.plan_id, plan.generated_at)
        /\ \A items \in {SelectSeq(plan.assignments,
                                   LAMBDA item : item.assignment_id = call_args[2])} :
              /\ items = <<>> <=> returned = Raise("KeyError")
              /\ Len(items) <= 1
              /\ \A k \in 1..Len(items) :
                    /\ DOMAIN returned = {"assignment_id", "employee", "slot", "score",
                                        "reasons", "score_detail", "alternatives"}
                    /\ returned.assignment_id = call_args[2]
                    /\ returned.employee = items[k].employee_name
                    /\ returned.slot = [date |-> items[k].date, start |-> items[k].start,
                                      end |-> items[k].end,
                                      shift_type |-> items[k].shift_type,
                                      working_area |-> items[k].working_area]
                    /\ returned.score = items[k].score
                    /\ returned.reasons = items[k].reasons
                    /\ returned.score_detail = items[k].score_detail
                    /\ Len(returned.alternatives) <= 5
                    /\ Len(returned.alternatives) =
                          (IF Len(items[k].alternatives) < 5
                           THEN Len(items[k].alternatives) ELSE 5)
                    /\ \A i \in 1..Len(returned.alternatives) :
                          returned.alternatives[i] = items[k].alternatives[i]

\* An assignment with more than five alternatives was explained.
ExplainsAssignmentWitness ==
    /\ call_args # <<>>
    /\ returned # Raise("KeyError")
    /\ Len(returned.alternatives) = 5
    /\ \E item \in Range(plan.assignments) :
          item.assignment_id = call_args[2] /\ Len(item.alternatives) > 5

\* An id no assignment of the plan has was asked for, in a plan with assignments.
ExplainsAssignmentNotFound ==
    /\ call_args # <<>>
    /\ plan.assignments # <<>>
    /\ returned = Raise("KeyError")

\* The rows of the fairness overview of the returned plan.
FairnessRows == plan.fairness

\* The assignments of the plan listed under the name.
AssignmentsNamed(name) ==
    SelectSeq(plan.assignments, LAMBDA a : a.employee_name = name)

\* The names of the employees whose rule sets a target of 20 hours a week.
TwentyHourNames ==
    {e.full_name : e \in {e \in Range(snapshot.employees) :
        _employee_rule(e, _normalize_rule_lookup(profile)).target_weekly_hours = 20}}

\* The hours and slots of a row are the sum and the number of the listed
\* employee's assignments, and the rows descend by assigned_hours.
FairnessSums ==
    /\ \A i \in 1..Len(FairnessRows) :
          \A mine \in {AssignmentsNamed(FairnessRows[i].employee_name)} :
              /\ mine # <<>>
              /\ FairnessRows[i].assigned_slots = Len(mine)
              /\ FairnessRows[i].assigned_hours = SeqSum([k \in 1..Len(mine) |-> mine[k].hours])
    /\ \A a \in Range(plan.assignments) :
          \E i \in 1..Len(FairnessRows) : FairnessRows[i].employee_name = a.employee_name
    /\ \A i \in 1..(Len(FairnessRows) - 1) :
          FairnessRows[i].assigned_hours >= FairnessRows[i + 1].assigned_hours

\* C13 as stated: the sums and the order, and for an employee with a target
\* of 20 hours a week delta_to_target is 20 hours minus the assigned hours.
FairnessDeltaFromTwenty ==
    pc = "done" =>
        /\ FairnessSums
        /\ \A i \in 1..Len(FairnessRows) :
              FairnessRows[i].employee_name \in TwentyHourNames =>
                  FairnessRows[i].delta_to_target = <<20 * 100 - FairnessRows[i].assigned_hours>>

\* C13, amended: the sums and the order, and for an employee with a target of
\* 20 hours a week the row's target is the month's, 20 * 4.33 = 86.6 hours,
\* and delta_to_target is the assigned hours minus that target; every row with
\* a target has the assigned hours minus the target, and a row without has none.
FairnessDeltaFromMonthlyTarget ==
    pc = "done" =>
        /\ FairnessSums
        /\ \A i \in 1..Len(FairnessRows) :
              /\ FairnessRows[i].employee_name \in TwentyHourNames =>
                    /\ FairnessRows[i].target_hours = 8660
                    /\ FairnessRows[i].delta_to_target = <<FairnessRows[i].assigned_hours - 8660>>
              /\ FairnessRows[i].target_hours # None =>
                    FairnessRows[i].delta_to_target =
                        <<FairnessRows[i].assigned_hours - FairnessRows[i].target_hours>>
              /\ FairnessRows[i].target_hours = None => FairnessRows[i].delta_to_target = <<>>

\* The row of an employee with a target of 20 hours a week who has two
\* assignments, one of six hours and one of eight.
FairnessDeltaFromMonthlyTargetWitness ==
    /\ pc = "done"
    /\ Len(FairnessRows) >= 1
    /\ \E i \in 1..Len(FairnessRows) :
          /\ FairnessRows[i].employee_name \in TwentyHourNames
          /\ FairnessRows[i].assigned_slots = 2
          /\ FairnessRows[i].assigned_hours = 1400

\* The slot ids of a plan's assignments and unassigned records.
SlotIdsOf(p) ==
    ({a.slot_id : a \in Range(p.assignments)} \cup {u.slot_id : u \in Range(p.unassigned)}) \ {""}

\* The plan assigns the slot.
Assigns(p, slot_id) == \E a \in Range(p.assignments) : a.slot_id = slot_id

\* The employee of the plan's assignment of the slot: of the last, if the plan
\* has more than one.
AssigneeOf(p, slot_id) ==
    p.assignments[CHOOSE i \in 1..Len(p.assignments) :
                     /\ p.assignments[i].slot_id = slot_id
                     /\ \A j \in 1..Len(p.assignments) :
                           p.assignments[j].slot_id = slot_id => j <= i].ordio_employee_id

\* C14: the five counts of slot_divergence are the numbers of slot ids of the
\* two plans that both plans assign to the same employee, that both assign to
\* different employees, that only A assigns, that only B assigns and that
\* neither assigns, these five sets hold every slot id once, and their sum is
\* total_slots; top_divergent_slots has at most 10 entries, slots of
\* different employees, in non-increasing order of the absolute score delta;
\* employee_comparison has at most 15 entries in non-increasing order of the
\* absolute hour delta; and the two plans are as they were given.
CompareClassifies ==
    pc = "returned" =>
        \A d \in {returned.slot_divergence} : \A ids \in {SlotIdsOf(first_plan) \cup SlotIdsOf(plan)} :
            /\ call_args = <<first_plan, plan>>
            /\ d.total_slots = Cardinality(ids)
            /\ d.same_employee + d.different_employee + d.a_only_assigned
                  + d.b_only_assigned + d.both_unassigned = d.total_slots
            /\ d.same_employee =
                  Cardinality({id \in ids : /\ Assigns(first_plan, id) /\ Assigns(plan, id)
                                            /\ AssigneeOf(first_plan, id) = AssigneeOf(plan, id)})
            /\ d.different_employee =
                  Cardinality({id \in ids : /\ Assigns(first_plan, id) /\ Assigns(plan, id)
                                            /\ AssigneeOf(first_plan, id) # AssigneeOf(plan, id)})
            /\ d.a_only_assigned =
                  Cardinality({id \in ids : Assigns(first_plan, id) /\ ~Assigns(plan, id)})
            /\ d.b_only_assigned =
                  Cardinality({id \in ids : ~Assigns(first_plan, id) /\ Assigns(plan, id)})
            /\ d.both_unassigned =
                  Cardinality({id \in ids : ~Assigns(first_plan, id) /\ ~Assigns(plan, id)})
            /\ Len(d.top_divergent_slots) <= 10
            /\ \A i \in 1..Len(d.top_divergent_slots) :
                  /\ Assigns(first_plan, d.top_divergent_slots[i].slot_id)
                  /\ Assigns(plan, d.top_divergent_slots[i].slot_id)
                  /\ AssigneeOf(first_plan, d.top_divergent_slots[i].slot_id)
                        # AssigneeOf(plan, d.top_divergent_slots[i].slot_id)
            /\ \A i \in 1..(Len(d.top_divergent_slots) - 1) :
                  Abs(d.top_divergent_slots[i].score_delta)
                      >= Abs(d.top_divergent_slots[i + 1].score_delta)
            /\ Len(returned.employee_comparison) <= 15
            /\ \A i \in 1..(Len(returned.employee_comparison) - 1) :
                  Abs(returned.employee_comparison[i].delta)
                      >= Abs(returned.employee_comparison[i + 1].delta)

\* Two plans with slots of all five classes, more than ten of them with
\* different employees and score deltas that differ, and more than fifteen
\* employees with hour deltas that differ.
CompareClassifiesWitness ==
    /\ pc = "returned"
    /\ returned.slot_divergence.same_employee > 0
    /\ returned.slot_divergence.different_employee > 10
    /\ returned.slot_divergence.a_only_assigned > 0
    /\ returned.slot_divergence.b_only_assigned > 0
    /\ returned.slot_divergence.both_unassigned > 0
    /\ Len(returned.slot_divergence.top_divergent_slots) = 10
    /\ Abs(returned.slot_divergence.top_divergent_slots[1].score_delta)
          > Abs(returned.slot_divergence.top_divergent_slots[10].score_delta)
    /\ Len(returned.employee_comparison) = 15
    /\ Cardinality({NameOf(a) : a \in Range(first_plan.assignments) \cup Range(plan.assignments)}) > 15
    /\ Abs(returned.employee_comparison[1].delta) > Abs(returned.employee_comparison[15].delta)

\* C15: for a list of non-negative hours _gini returns a fraction
\* (2 * cumulative - (n + 1) * total) / (n * total) with
\* 0 <= 2 * cumulative - (n + 1) * total <= n * total, that is a value from 0
\* to 1, and 0 for the empty list and for a list of zeros.
GiniBounds ==
    pc = "returned" /\ Len(call_args) = 1 =>
        /\ returned.den > 0
        /\ 0 <= returned.num
        /\ returned.num <= returned.den
        /\ (\A i \in 1..Len(call_args[1]) : call_args[1][i] = 0) => returned.num = 0

\* A list of three or more hours that does not ascend, with a coefficient
\* above 0.
GiniBoundsWitness ==
    /\ pc = "returned"
    /\ Len(call_args) = 1
    /\ Len(call_args[1]) >= 3
    /\ call_args[1][1] > call_args[1][2]
    /\ call_args[1][2] > call_args[1][3]
    /\ returned.num > 0

\* A time with hour 0-23 and minute 0-59.
ValidTime(t) == Len(t) = 2 /\ t[1] \in 0..23 /\ t[2] \in 0..59

\* The minutes of the day a range covers: from its start up to its end, and
\* past midnight when the end is not after the start.
MinutesOfRange(t0, t1) ==
    IF Minutes(t1) > Minutes(t0) THEN Minutes(t0)..(Minutes(t1) - 1)
    ELSE (Minutes(t0)..1439) \cup (0..(Minutes(t1) - 1))

\* C16: for valid times time_overlap is true exactly when the two ranges
\* share a minute of the day, a range whose end is not after its start passing
\* midnight; swapping the two ranges gives the same result; two ranges of one
\* day of which one ends when the other starts do not overlap; with a time
\* that does not parse the result is false; 22:00-06:00 overlaps 23:00-02:00
\* and 09:00-12:00 does not overlap 13:00-17:00.
OverlapIsSharedMinute ==
    pc = "returned" /\ Len(call_args) = 4 =>
        /\ returned = time_overlap(call_args[3], call_args[4], call_args[1], call_args[2])
        /\ (\E i \in 1..4 : ~ValidTime(call_args[i])) => returned = FALSE
        /\ (\A i \in 1..4 : ValidTime(call_args[i])) =>
              /\ returned = (MinutesOfRange(call_args[1], call_args[2])
                                \cap MinutesOfRange(call_args[3], call_args[4]) # {})
              /\ (/\ Minutes(call_args[1]) < Minutes(call_args[2])
                  /\ call_args[2] = call_args[3]
                  /\ Minutes(call_args[3]) < Minutes(call_args[4])) => returned = FALSE
        /\ call_args = <<<<22, 0>>, <<6, 0>>, <<23, 0>>, <<2, 0>>>> => returned = TRUE
        /\ call_args = <<<<9, 0>>, <<12, 0>>, <<13, 0>>, <<17, 0>>>> => returned = FALSE

\* 22:00-06:00 and 23:00-02:00 overlap.
OverlapIsSharedMinuteWitness ==
    /\ pc = "returned"
    /\ call_args = <<<<22, 0>>, <<6, 0>>, <<23, 0>>, <<2, 0>>>>
    /\ returned = TRUE

\* C17: for valid times calc_shift_hours is the end minus the start modulo
\* 1440 minutes, from 0 up to but not 24 hours: 22:00-06:00 gives 8 hours and
\* 09:00-15:00 gives 6; with a time that does not parse or is out of range it
\* is 0.
ShiftHoursWrap ==
    pc = "returned" /\ Len(call_args) = 2 =>
        /\ (ValidTime(call_args[1]) /\ ValidTime(call_args[2])) =>
              /\ returned = (Minutes(call_args[2]) - Minutes(call_args[1])) % 1440
              /\ 0 <= returned
              /\ returned < 24 * 60
        /\ (~ValidTime(call_args[1]) \/ ~ValidTime(call_args[2])) => returned = 0
        /\ call_args = <<<<22, 0>>, <<6, 0>>>> => returned = 8 * 60
        /\ call_args = <<<<9, 0>>, <<15, 0>>>> => returned = 6 * 60

\* 22:00-06:00 gives 8 hours.
ShiftHoursWrapWitness ==
    /\ pc = "returned"
    /\ call_args = <<<<22, 0>>, <<6, 0>>>>
    /\ returned = 480

\* The evaluation of the employee for the slot the loop handles next, as the
\* run makes it and as a run of the given mode would make it.
EvaluationInMode(emp, mode) ==
    LET emp_id == emp.ordio_employee_id
        rule == _employee_rule(emp, _normalize_rule_lookup(profile))
        slot == open_slots[idx]
    IN  _score_candidate(emp, slot, rule,
                         parse_simple_shift_preferences(rule.notes),
                         emp_id \in slot.applicant_employee_ids,
                         _collect_existing_shifts(snapshot, emp_id),
                         Get(state.run_assignments_by_emp, emp_id, <<>>),
                         AbsencesOf(snapshot, emp_id),
                         _derive_fixed_patterns(snapshot.assigned_shifts),
                         Policy(profile),
                         Get(state.run_hours_by_emp_month, <<emp_id, month_key(slot.date)>>, 0),
                         mode)

\* The hour limits of the rules and the preference violations.
AdvisoryCodes ==
    {"monthly_hours_limit", "max_additional_monthly_hours", "max_weekly_hours",
     "no_weekend", "only_weekend", "starts_too_early", "ends_too_late",
     "allowed_days", "blocked_days"}

\* C18: in loose mode every code of blocked_reasons is obligatory and the
\* hour limits of the rules and the preference violations are in
\* soft_violations only; in strict mode soft_violations is empty and the
\* codes a loose run would put there are in blocked_reasons; the obligatory
\* codes, the labor-law reasons and max_salary_limit among them, block in
\* both modes alike; and every code of an evaluation is in exactly one of
\* OBLIGATORY_BLOCK_REASONS and SOFT_BLOCK_REASONS.
ReasonsApartByMode ==
    (pc = "loop" /\ idx <= Len(open_slots)) =>
        \A emp \in Range(EmployeeById(snapshot)) :
            \A e \in {EvaluateEmployee(emp, open_slots[idx], state)} :
            \A strict \in {EvaluationInMode(emp, "strict")} :
            \A loose \in {EvaluationInMode(emp, "loose")} :
                /\ constraint_mode = "loose" =>
                      /\ Range(e.blocked_reasons) \subseteq OBLIGATORY_BLOCK_REASONS
                      /\ Range(e.blocked_reasons) \cap AdvisoryCodes = {}
                      /\ Range(e.soft_violations) \subseteq AdvisoryCodes
                      /\ Range(e.soft_violations) = Range(strict.blocked_reasons) \cap AdvisoryCodes
                /\ constraint_mode = "strict" =>
                      /\ e.soft_violations = <<>>
                      /\ Range(e.blocked_reasons) =
                            Range(loose.blocked_reasons) \cup Range(loose.soft_violations)
                /\ Range(strict.blocked_reasons) \cap OBLIGATORY_BLOCK_REASONS
                      = Range(loose.blocked_reasons)
                /\ \A code \in Range(e.blocked_reasons) \cup Range(e.soft_violations) :
                      (code \in OBLIGATORY_BLOCK_REASONS) # (code \in SOFT_BLOCK_REASONS)

\* In loose mode an evaluation is blocked by max_salary_limit and has a soft
\* violation besides.
ReasonsApartByModeWitness ==
    /\ pc = "loop"
    /\ idx <= Len(open_slots)
    /\ constraint_mode = "loose"
    /\ \E emp \in Range(EmployeeById(snapshot)) :
          \E e \in {EvaluateEmployee(emp, open_slots[idx], state)} :
              /\ "max_salary_limit" \in Range(e.blocked_reasons)
              /\ e.soft_violations # <<>>

\* C19 as stated: in loose mode an employee without existing shifts, absence
\* and salary cap, whose hours of this run in the slot's week plus the slot's
\* hours exceed rule.max_weekly_hours and are at most 48 hours, and whose
\* evaluation has no reason that comes from another check, is not blocked and
\* has max_weekly_hours in soft_violations.
WeeklyRuleAdvisory ==
    (pc = "loop" /\ idx <= Len(open_slots) /\ constraint_mode = "loose") =>
        \A emp \in Range(EmployeeById(snapshot)) :
            \A e \in {EvaluateEmployee(emp, open_slots[idx], state)} :
            \A rule \in {_employee_rule(emp, _normalize_rule_lookup(profile))} :
            \A week_hours \in {_hours_in_week(Get(state.run_assignments_by_emp,
                                                  emp.ordio_employee_id, <<>>),
                                              week_key(open_slots[idx].date))
                                   + open_slots[idx].hours} :
                (/\ _collect_existing_shifts(snapshot, emp.ordio_employee_id) = <<>>
                 /\ AbsencesOf(snapshot, emp.ordio_employee_id) = <<>>
                 /\ ~(emp.hourly_wage > 0 /\ emp.max_salary > 0)
                 /\ rule.max_weekly_hours # None
                 /\ week_hours > rule.max_weekly_hours * 60
                 /\ week_hours <= 48 * 60
                 /\ Range(e.blocked_reasons) \subseteq {"weekly_hours_limit"}
                 /\ Range(e.soft_violations) \subseteq {"max_weekly_hours"})
                => /\ ~e.blocked
                   /\ "max_weekly_hours" \in Range(e.soft_violations)

\* The minutes an employee has in a month: of the snapshot's assigned shifts
\* and of the plan's assignments.
MonthMinutes(emp_id, month) ==
    LET existing == SelectSeq(snapshot.assigned_shifts,
                              LAMBDA sh : sh.ordio_employee_id = emp_id /\ month_key(sh.date) = month)
        assigned == SelectSeq(plan.assignments,
                              LAMBDA a : a.ordio_employee_id = emp_id /\ month_key(a.date) = month)
    IN  SeqSum([i \in 1..Len(existing) |-> (Minutes(existing[i].end) - Minutes(existing[i].start)) % 1440])
        + SeqSum([i \in 1..Len(assigned) |-> SlotOf(assigned[i].slot_id).hours])

\* C20: after a strict run, for every employee with an effective monthly cap
\* and every month in which the run assigned the employee a slot, the hours
\* of the employee's existing shifts in the month plus the hours the run
\* assigned in the month are at most the cap.
StrictMonthlyCap ==
    (pc = "done" /\ constraint_mode = "strict") =>
        \A emp \in Range(EmployeeById(snapshot)) :
            \A cap \in {_effective_monthly_cap(emp, _employee_rule(emp, _normalize_rule_lookup(profile)))} :
                cap # NoCap =>
                    \A a \in Range(plan.assignments) :
                        a.ordio_employee_id = emp.ordio_employee_id =>
                            MonthMinutes(emp.ordio_employee_id, month_key(a.date)) * cap.den
                                <= cap.num * 60

\* After a strict run an employee with existing shifts in the month has an
\* assignment in it and was blocked for a later slot by the monthly cap.
StrictMonthlyCapWitness ==
    /\ pc = "done"
    /\ constraint_mode = "strict"
    /\ \E a \in Range(plan.assignments) :
          /\ \E sh \in Range(snapshot.assigned_shifts) :
                sh.ordio_employee_id = a.ordio_employee_id /\ month_key(sh.date) = month_key(a.date)
          /\ \E slot \in Range(open_slots) :
                /\ month_key(slot.date) = month_key(a.date)
                /\ \E row \in Range(plan.evaluation_matrix[slot.slot_id]) :
                      /\ row.employee_id = a.ordio_employee_id
                      /\ "monthly_hours_limit" \in Range(row.blocked_reasons)

\* The minutes an employee has in a Monday-start week: of the snapshot's
\* assigned shifts and of the plan's assignments.
WeekMinutes(emp_id, wk) ==
    LET existing == SelectSeq(snapshot.assigned_shifts,
                              LAMBDA sh : sh.ordio_employee_id = emp_id /\ week_key(sh.date) = wk)
        assigned == SelectSeq(plan.assignments,
                              LAMBDA a : a.ordio_employee_id = emp_id /\ week_key(a.date) = wk)
    IN  SeqSum([i \in 1..Len(existing) |-> (Minutes(existing[i].end) - Minutes(existing[i].start)) % 1440])
        + SeqSum([i \in 1..Len(assigned) |-> SlotOf(assigned[i].slot_id).hours])

\* The weekly cap as the claim gives it: the rule's max_weekly_hours, else 20
\* hours for a working student, else 48.
WeeklyCapOf(emp) ==
    LET rule == _employee_rule(emp, _normalize_rule_lookup(profile))
    IN  IF rule.max_weekly_hours # None THEN rule.max_weekly_hours
        ELSE IF emp.employment = "Werkstudent" THEN 20 ELSE 48

\* C21: after a run of either mode, for every employee and every week in
\* which the run assigned the employee a slot, the hours of the employee's
\* existing shifts in the week plus the hours the run assigned in the week
\* are at most the effective weekly cap.
WeeklyCapKept ==
    pc = "done" =>
        \A emp \in Range(EmployeeById(snapshot)) :
            \A a \in Range(plan.assignments) :
                a.ordio_employee_id = emp.ordio_employee_id =>
                    /\ _effective_weekly_cap(emp, _employee_rule(emp, _normalize_rule_lookup(profile)))
                          = WeeklyCapOf(emp)
                    /\ WeekMinutes(emp.ordio_employee_id, week_key(a.date)) <= WeeklyCapOf(emp) * 60

\* In loose mode an employee with an existing shift in the week has an
\* assignment in it, made to a slot with applicants that is not the earliest
\* of the run, and was blocked for another slot of the week by the weekly cap.
WeeklyCapKeptWitness ==
    /\ pc = "done"
    /\ constraint_mode = "loose"
    /\ \E a \in Range(plan.assignments) :
          /\ \E sh \in Range(snapshot.assigned_shifts) :
                sh.ordio_employee_id = a.ordio_employee_id /\ week_key(sh.date) = week_key(a.date)
          /\ \E slot \in Range(open_slots) :
                /\ week_key(slot.date) = week_key(a.date)
                /\ slot.date < a.date
                /\ \E row \in Range(plan.evaluation_matrix[slot.slot_id]) :
                      /\ row.employee_id = a.ordio_employee_id
                      /\ "weekly_hours_limit" \in Range(row.blocked_reasons)

\* The dates an employee works: of the snapshot's assigned shifts and of the
\* plan's assignments.
WorkedDates(emp_id) ==
    {sh.date : sh \in {x \in Range(snapshot.assigned_shifts) : x.ordio_employee_id = emp_id}}
    \cup {a.date : a \in {x \in Range(plan.assignments) : x.ordio_employee_id = emp_id}}

\* The maximal block of consecutive dates around d within the dates.
BlockAround(d, dates) ==
    {e \in dates : \A f \in (IF e <= d THEN e..d ELSE d..e) : f \in dates}

MaxConsecutiveDays ==
    IF "max_consecutive_days" \in DOMAIN profile.policy
    THEN profile.policy.max_consecutive_days ELSE 5

\* C22: after a run of either mode, for every date the run assigned to an
\* employee, the maximal block of consecutive dates around it on which the
\* employee works (existing shifts and assignments of the run) is no longer
\* than the policy's max_consecutive_days, 5 when the policy has none.
ConsecutiveDaysKept ==
    pc = "done" =>
        \A a \in Range(plan.assignments) :
            Cardinality(BlockAround(a.date, WorkedDates(a.ordio_employee_id))) <= MaxConsecutiveDays

\* An employee with an existing shift was assigned a later date first and
\* then blocked for the date between the two, which would have closed a block
\* longer than the limit.
ConsecutiveDaysKeptWitness ==
    /\ pc = "done"
    /\ \E a \in Range(plan.assignments) :
          /\ a.date - 2 \in {sh.date : sh \in {x \in Range(snapshot.assigned_shifts) :
                                                  x.ordio_employee_id = a.ordio_employee_id}}
          /\ Cardinality(BlockAround(a.date, WorkedDates(a.ordio_employee_id))) < 3
          /\ MaxConsecutiveDays < 3
          /\ \E slot \in Range(open_slots) :
                /\ slot.date = a.date - 1
                /\ \E row \in Range(plan.evaluation_matrix[slot.slot_id]) :
                      /\ row.employee_id = a.ordio_employee_id
                      /\ "consecutive_days_limit" \in Range(row.blocked_reasons)

\* The shifts the assignments of a run state give an employee, in the order of
\* the assignments.
RunShiftsOf(st, emp_id) ==
    LET mine == SelectSeq(st.assignments, LAMBDA a : a.ordio_employee_id = emp_id)
    IN  [i \in 1..Len(mine) |->
            [date |-> SlotOf(mine[i].slot_id).date, start |-> SlotOf(mine[i].slot_id).start,
             end |-> SlotOf(mine[i].slot_id).end, hours |-> SlotOf(mine[i].slot_id).hours]]

\* The hours of the shifts.
HoursOfShifts(shifts) == SeqSum([i \in 1..Len(shifts) |-> shifts[i].hours])

\* What a run state tells of an employee: the values a lookup of its
\* defaultdicts yields, for the months and weeks of the open slots.
RunEntries(st, emp_id) ==
    [shifts |-> Get(st.run_assignments_by_emp, emp_id, <<>>),
     month |-> [m \in {month_key(slot.date) : slot \in Range(open_slots)} |->
                   Get(st.run_hours_by_emp_month, <<emp_id, m>>, 0)],
     week |-> [w \in {week_key(slot.date) : slot \in Range(open_slots)} |->
                   Get(st.run_hours_by_emp_week, <<emp_id, w>>, 0)],
     count |-> [w \in {week_key(slot.date) : slot \in Range(open_slots)} |->
                   Get(st.run_shift_count_by_emp_week, <<emp_id, w>>, 0)],
     days |-> Get(st.run_days_by_emp, emp_id, {}),
     total |-> Get(st.run_total_hours_by_emp, emp_id, 0)]

\* The same values derived from the assignments.
DerivedEntries(st, emp_id) ==
    LET shifts == RunShiftsOf(st, emp_id)
    IN  [shifts |-> shifts,
         month |-> [m \in {month_key(slot.date) : slot \in Range(open_slots)} |->
                       HoursOfShifts(SelectSeq(shifts, LAMBDA sh : month_key(sh.date) = m))],
         week |-> [w \in {week_key(slot.date) : slot \in Range(open_slots)} |->
                      HoursOfShifts(SelectSeq(shifts, LAMBDA sh : week_key(sh.date) = w))],
         count |-> [w \in {week_key(slot.date) : slot \in Range(open_slots)} |->
                       Len(SelectSeq(shifts, LAMBDA sh : week_key(sh.date) = w))],
         days |-> {shifts[i].date : i \in 1..Len(shifts)},
         total |-> HoursOfShifts(shifts)]

EmployeeIds == {emp.ordio_employee_id : emp \in Range(EmployeeById(snapshot))}

\* The run state holds no entry of anyone but the employees.
RunKeysKnown(st) ==
    /\ DOMAIN st.run_assignments_by_emp \subseteq EmployeeIds
    /\ DOMAIN st.run_days_by_emp \subseteq EmployeeIds
    /\ DOMAIN st.run_total_hours_by_emp \subseteq EmployeeIds
    /\ \A k \in DOMAIN st.run_hours_by_emp_month \cup DOMAIN st.run_hours_by_emp_week
                  \cup DOMAIN st.run_shift_count_by_emp_week : k[1] \in EmployeeIds

RunStateAgrees ==
    pc \in {"loop", "done"} =>
        /\ RunKeysKnown(state)
        /\ \A emp_id \in EmployeeIds : RunEntries(state, emp_id) = DerivedEntries(state, emp_id)

\* A step of the loop: one that assigns changes the entries of the winner
\* only, one that leaves the slot unassigned changes no entry.
RunStateStep ==
    (pc = "loop" /\ idx' = idx + 1) =>
        \/ /\ Len(state'.assignments) = Len(state.assignments) + 1
           /\ state'.unassigned = state.unassigned
           /\ \A emp_id \in EmployeeIds :
                 emp_id # state'.assignments[Len(state'.assignments)].ordio_employee_id =>
                     RunEntries(state', emp_id) = RunEntries(state, emp_id)
        \/ /\ Len(state'.unassigned) = Len(state.unassigned) + 1
           /\ state'.assignments = state.assignments
           /\ \A emp_id \in EmployeeIds : RunEntries(state', emp_id) = RunEntries(state, emp_id)

\* C23: after every slot step the run state agrees with the assignments made
\* so far: each employee's run-assigned shifts are the shifts of the
\* employee's assignments, and the hours by month and by week, the shift
\* count by week, the worked dates and the total hours are what these shifts
\* give; an assigning step changes the winner's entries only and a step that
\* leaves the slot unassigned changes none.
RunStateConsistent == [](RunStateAgrees) /\ [][RunStateStep]_vars

\* Two steps are done: the first assigned a slot, the second left one
\* unassigned, and the winner's total is the hours of the one slot.
RunStateConsistentWitness ==
    /\ pc = "loop"
    /\ idx = 3
    /\ Len(state.assignments) = 1
    /\ Len(state.unassigned) = 1
    /\ state.unassigned[1].slot_id = open_slots[2].slot_id
    /\ Get(state.run_total_hours_by_emp, state.assignments[1].ordio_employee_id, 0)
          = open_slots[1].hours
    /\ open_slots[1].hours > 0

\* The obligatory reasons that hold for the i-th assignment of the plan when
\* the employee's existing shifts and the employee's other assignments of the
\* plan are the prior context: what the validator's checks give against the
\* other assignments, and already_has_shift_same_day.
ObligatoryReasonsHolding(i) ==
    LET a == plan.assignments[i]
        prior == _collect_existing_shifts(snapshot, a.ordio_employee_id) \o OtherRunByIndex(plan, i)
        checked == ViolationsOfAssignment(plan, snapshot, profile, i, OtherRunByIndex(plan, i))
    IN  {checked[k].violation : k \in 1..Len(checked)}
        \cup (IF \E s \in Range(prior) : s.date = a.date
              THEN {"already_has_shift_same_day"} ELSE {})

KnownEmployee(emp_id) == \E emp \in Range(EmployeeById(snapshot)) : emp.ordio_employee_id = emp_id

\* C24: for every assignment of a plan the validator reports every
\* obligatory reason that holds for it against the employee's existing shifts
\* and other assignments of the plan, and a plan with two assignments of one
\* employee on one date has a violation of that employee.
ValidatorReportsObligatory ==
    pc = "validated" =>
        \A i \in 1..Len(plan.assignments) :
            KnownEmployee(plan.assignments[i].ordio_employee_id) =>
                /\ \A reason \in ObligatoryReasonsHolding(i) :
                      \E v \in Range(returned) :
                          /\ v.slot_id = plan.assignments[i].slot_id
                          /\ v.employee_id = plan.assignments[i].ordio_employee_id
                          /\ v.violation = reason
                /\ \A j \in 1..Len(plan.assignments) :
                      (/\ j # i
                       /\ plan.assignments[j].ordio_employee_id = plan.assignments[i].ordio_employee_id
                       /\ plan.assignments[j].date = plan.assignments[i].date) =>
                          \E v \in Range(returned) :
                              v.employee_id = plan.assignments[i].ordio_employee_id

PlaceOf(slot_id) == CHOOSE k \in 1..Len(open_slots) : open_slots[k].slot_id = slot_id

\* Slot a is processed before slot b: a has applicants and b has none, or
\* both or none have and a comes first by date, start and id.
ProcessedBefore(a, b) ==
    LET group(slot) == IF slot.applicant_employee_ids # {} THEN 1 ELSE 2
    IN  \/ group(a) < group(b)
        \/ /\ group(a) = group(b)
           /\ \/ a.date < b.date
              \/ a.date = b.date /\ Minutes(a.start) < Minutes(b.start)
              \/ /\ a.date = b.date
                 /\ a.start = b.start
                 /\ StrRank(a.slot_id) < StrRank(b.slot_id)

\* The slot ids of a list of records are in the order of processing.
InProcessingOrder(records) ==
    \A i \in 1..Len(records), j \in 1..Len(records) :
        i < j => PlaceOf(records[i].slot_id) < PlaceOf(records[j].slot_id)

\* The hours, in hundredths, of the month of the slot that the assignments
\* to slots before it give the employee.
HoursAssignedBefore(emp_id, slot) ==
    LET earlier == SelectSeq(state.assignments,
                             LAMBDA a : /\ a.ordio_employee_id = emp_id
                                        /\ PlaceOf(a.slot_id) < PlaceOf(slot.slot_id)
                                        /\ month_key(a.date) = month_key(slot.date))
    IN  RoundHalfEven(SeqSum([i \in 1..Len(earlier) |-> SlotOf(earlier[i].slot_id).hours]) * 100, 60)

ProcessingOrderKept ==
    pc \in {"loop", "done"} =>
        /\ {open_slots[k].slot_id : k \in 1..Len(open_slots)}
              = {snapshot.open_shifts[i].slot_id : i \in InRangeShifts}
        /\ \A i \in 1..Len(open_slots), j \in 1..Len(open_slots) :
              i < j => ProcessedBefore(open_slots[i], open_slots[j])
        /\ InProcessingOrder(state.assignments)
        /\ InProcessingOrder(state.unassigned)
        /\ {r.slot_id : r \in Range(state.assignments) \cup Range(state.unassigned)}
              = {open_slots[k].slot_id : k \in 1..(idx - 1)}
        /\ \A k \in 1..(idx - 1) :
              \A row \in Range(evaluation_matrix[open_slots[k].slot_id]) :
                  row.month_hours_before = HoursAssignedBefore(row.employee_id, open_slots[k])
        /\ pc = "done" => (plan.assignments = state.assignments /\ plan.unassigned = state.unassigned)

\* A step of the loop handles the next slot of the order: its record is
\* appended to the assignments or to the unassigned slots.
ProcessingOrderStep ==
    (pc = "loop" /\ idx' = idx + 1) =>
        \/ /\ Len(state'.assignments) = Len(state.assignments) + 1
           /\ SubSeq(state'.assignments, 1, Len(state.assignments)) = state.assignments
           /\ state'.assignments[Len(state'.assignments)].slot_id = open_slots[idx].slot_id
           /\ state'.unassigned = state.unassigned
        \/ /\ Len(state'.unassigned) = Len(state.unassigned) + 1
           /\ SubSeq(state'.unassigned, 1, Len(state.unassigned)) = state.unassigned
           /\ state'.unassigned[Len(state'.unassigned)].slot_id = open_slots[idx].slot_id
           /\ state'.assignments = state.assignments

\* C25: generate_plan processes the slots of the range that have applicants
\* before those that have none, each group in ascending order of date, start
\* and slot id; the assignments and the unassigned slots keep this order, and
\* the evaluation of a slot counts exactly the assignments made to the slots
\* before it.
ProcessingOrder == [](ProcessingOrderKept) /\ [][ProcessingOrderStep]_vars

\* A slot with applicants was processed and assigned before a slot of an
\* earlier date without any, and the evaluation of the second slot counted
\* the hours of the first for its winner.
ProcessingOrderWitness ==
    /\ pc = "done"
    /\ Len(plan.assignments) = 2
    /\ plan.assignments[1].date > plan.assignments[2].date
    /\ SlotOf(plan.assignments[1].slot_id).applicant_employee_ids # {}
    /\ SlotOf(plan.assignments[2].slot_id).applicant_employee_ids = {}
    /\ plan.assignments[1].hours > 0
    /\ \E row \in Range(plan.evaluation_matrix[plan.assignments[2].slot_id]) :
          /\ row.employee_id = plan.assignments[1].ordio_employee_id
          /\ row.month_hours_before = plan.assignments[1].hours

\* The candidate pool of an assigned slot, from the rows of its evaluation
\* list: the unblocked applicants when applicants are preferred and one of
\* them is unblocked, else all unblocked employees.
CandidatePool(slot_id) ==
    LET rows == Range(plan.evaluation_matrix[slot_id])
        unblocked == {r \in rows : ~r.blocked}
        applicants == {r \in unblocked : r.employee_id \in SlotOf(slot_id).applicant_employee_ids}
    IN  IF Get(profile.policy, "prefer_applicants", TRUE) /\ applicants # {}
        THEN applicants ELSE unblocked

\* (normalized name, id) of row a is smaller than that of row b.
NameAndIdBefore(a, b) ==
    \/ StrRank(canonical_name(a.employee_name)) < StrRank(canonical_name(b.employee_name))
    \/ /\ canonical_name(a.employee_name) = canonical_name(b.employee_name)
       /\ StrRank(a.employee_id) < StrRank(b.employee_id)

\* C26: the winner of every assigned slot has the highest score of the
\* candidate pool and, among the pool's members of that score, the smallest
\* (normalized name, id); every evaluation list holds each employee once,
\* the unblocked before the blocked, and every blocked entry has score 0.
WinnerIsBestOfPool ==
    pc = "done" =>
        /\ \A a \in Range(plan.assignments) :
              \E w \in CandidatePool(a.slot_id) :
                  /\ w.employee_id = a.ordio_employee_id
                  /\ \A r \in CandidatePool(a.slot_id) :
                        /\ r.score <= w.score
                        /\ (r.score = w.score /\ r # w) => NameAndIdBefore(w, r)
        /\ \A slot \in Range(open_slots) :
              \A rows \in {plan.evaluation_matrix[slot.slot_id]} :
                  /\ Len(rows) = Len(EmployeeById(snapshot))
                  /\ \A emp \in Range(EmployeeById(snapshot)) :
                        Cardinality({i \in 1..Len(rows) : rows[i].employee_id = emp.ordio_employee_id}) = 1
                  /\ \A i \in 1..Len(rows), j \in 1..Len(rows) :
                        (rows[i].blocked /\ ~rows[j].blocked) => j < i
                  /\ \A i \in 1..Len(rows) : rows[i].blocked => rows[i].score = 0

\* The winner of a slot ties on the score with another member of the pool as
\* large as all unblocked employees, and comes after it in the snapshot; an
\* evaluation list of the plan has a blocked entry.
WinnerIsBestOfPoolWitness ==
    /\ pc = "done"
    /\ \E a \in Range(plan.assignments) :
          \E r \in CandidatePool(a.slot_id) :
              /\ r.employee_id # a.ordio_employee_id
              /\ r.score = a.score
              /\ \E i \in 1..Len(snapshot.employees), j \in 1..Len(snapshot.employees) :
                    /\ i < j
                    /\ snapshot.employees[i].ordio_employee_id = r.employee_id
                    /\ snapshot.employees[j].ordio_employee_id = a.ordio_employee_id
    /\ \E slot \in Range(open_slots) :
          \E row \in Range(plan.evaluation_matrix[slot.slot_id]) : row.blocked

\* C27: a slot is left unassigned exactly when no employee is unblocked for
\* it at the moment it is processed, or there is no employee; a slot with
\* applicants who are all blocked and an unblocked employee is assigned to a
\* non-applicant as recommendation_despite_applicants.
UnassignedOnlyWithoutCandidate ==
    pc = "done" =>
        \A slot \in Range(open_slots) :
            \A rows \in {Range(plan.evaluation_matrix[slot.slot_id])} :
                /\ (\E u \in Range(plan.unassigned) : u.slot_id = slot.slot_id)
                      <=> (\A r \in rows : r.blocked)
                /\ (\E a \in Range(plan.assignments) : a.slot_id = slot.slot_id)
                      <=> (\E r \in rows : ~r.blocked)
                /\ (/\ slot.applicant_employee_ids # {}
                    /\ \A r \in rows : r.employee_id \in slot.applicant_employee_ids => r.blocked
                    /\ \E r \in rows : ~r.blocked) =>
                        \E a \in Range(plan.assignments) :
                            /\ a.slot_id = slot.slot_id
                            /\ a.ordio_employee_id \notin slot.applicant_employee_ids
                            /\ ~a.is_applicant
                            /\ a.assignment_kind = "recommendation_despite_applicants"

\* A slot whose only applicant is an employee blocked for it went to an
\* employee who did not apply.
UnassignedOnlyWithoutCandidateWitness ==
    /\ pc = "done"
    /\ \E a \in Range(plan.assignments) :
          /\ a.assignment_kind = "recommendation_despite_applicants"
          /\ \E r \in Range(plan.evaluation_matrix[a.slot_id]) :
                /\ r.employee_id \in SlotOf(a.slot_id).applicant_employee_ids
                /\ r.blocked
          /\ \A r \in Range(plan.evaluation_matrix[a.slot_id]) :
                r.employee_id \in SlotOf(a.slot_id).applicant_employee_ids => r.blocked

\* The minute a shift starts and the minute it ends, counted from day 0: a
\* shift whose end is not after its start ends on the following day.
RealStart(s) == s.date * 24 * 60 + Minutes(s.start)

RealEnd(s) ==
    (IF Minutes(s.end) <= Minutes(s.start) THEN s.date + 1 ELSE s.date) * 24 * 60 + Minutes(s.end)

\* The shifts of an employee: existing and assigned by the run.
ShiftsOfEmployee(emp_id) ==
    {[date |-> sh.date, start |-> sh.start, end |-> sh.end] :
        sh \in {x \in Range(snapshot.assigned_shifts) : x.ordio_employee_id = emp_id}}
    \cup {[date |-> a.date, start |-> a.start, end |-> a.end] :
            a \in {x \in Range(plan.assignments) : x.ordio_employee_id = emp_id}}

\* C29: in every plan, an assignment and any other shift of the employee on
\* the day before or after it (existing or assigned by the run) are at least
\* 11 hours of real time apart, from the end of the earlier to the start of
\* the later.
ElevenHoursOfRest ==
    pc = "done" =>
        \A a \in Range(plan.assignments) :
            \A s \in ShiftsOfEmployee(a.ordio_employee_id) :
                /\ s.date + 1 = a.date => RealStart(a) - RealEnd(s) >= 11 * 60
                /\ a.date + 1 = s.date => RealStart(s) - RealEnd(a) >= 11 * 60

\* The max_shifts_week that parse_simple_shift_preferences yields for the
\* notes of the employee's rule.
ParsedShiftLimit(emp) ==
    parse_simple_shift_preferences(_employee_rule(emp, _normalize_rule_lookup(profile)).notes).max_shifts_week

\* C30: in strict mode an employee whose notes give max_shifts_week = N has,
\* in every week the run assigned a slot in, at most N shifts (existing and
\* assigned), and is blocked for every slot of a week in which the employee
\* has N shifts already when the slot is processed.
ShiftLimitHonoured ==
    (pc = "done" /\ constraint_mode = "strict") =>
        \A emp \in Range(EmployeeById(snapshot)) :
            ParsedShiftLimit(emp) # None =>
                /\ \A a \in Range(plan.assignments) :
                      a.ordio_employee_id = emp.ordio_employee_id =>
                          Cardinality({s \in ShiftsOfEmployee(emp.ordio_employee_id) :
                                          week_key(s.date) = week_key(a.date)})
                              <= ParsedShiftLimit(emp)
                /\ \A slot \in Range(open_slots) :
                      \A row \in Range(plan.evaluation_matrix[slot.slot_id]) :
                          (/\ row.employee_id = emp.ordio_employee_id
                           /\ Cardinality({s \in ShiftsOfEmployee(emp.ordio_employee_id) :
                                              /\ week_key(s.date) = week_key(slot.date)
                                              /\ s.date # slot.date}) >= ParsedShiftLimit(emp)) =>
                              row.blocked

====
